---- MODULE Spec2Model ----
(***************************************************************************)
(* Handel-style weighted signature aggregation of core-rs-albatross:       *)
(* the evaluator (WeightedVote::evaluate, WeightedVote::verify) of         *)
(* handel/src/evaluator.rs, over the contribution store, the registry and  *)
(* the partitioner it reads; the framed message codec (MessageReader) of   *)
(* network-libp2p; and the mock network (MockNetwork over its hub) of      *)
(* network-mock/src/network.rs with its requests and responses.            *)
(***************************************************************************)
EXTENDS Integers, FiniteSets, Sequences, TLC

VARIABLES store, last, sent, inner, reader, yielded, driver, nodes, worker,
          hub, peers, futures

vars == <<store, last, sent, inner, reader, yielded, driver, nodes, worker,
          hub, peers, futures>>

\* The variables of the message codec.
readerVars == <<sent, inner, reader, yielded>>

\* The variables of the aggregation driver.
driverVars == <<driver, nodes>>

\* The variables of an evaluate call that runs next to the store's writers.
taskVars == <<worker>>

\* The variables of the mock network: the hub, the peer map of each network
\* and the response futures of the requests.
netVars == <<hub, peers, futures>>

\* All but the variables of the mock network.
coreVars == <<store, readerVars, driverVars, taskVars>>

(***************************************************************************)
(* Bounds of the model.                                                    *)
(***************************************************************************)

\* Number of validators of the aggregation (partitioner.size()).
NumValidators == 7

(***************************************************************************)
(* Partitioner: the binomial levels seen by the node that runs the         *)
(* evaluator.  Level 0 is the node itself, levels 1..levels-1 are its      *)
(* peers' ranges, level `levels` is reserved for final aggregates.         *)
(***************************************************************************)

\* The validator index of the node that owns the store and the evaluator.
OwnId == 0

ValidatorIds == 0 .. (NumValidators - 1)

RECURSIVE Pow2(_)
Pow2(k) == IF k = 0 THEN 1 ELSE 2 * Pow2(k - 1)

RECURSIVE LevelsFrom(_)
LevelsFrom(k) == IF Pow2(k - 1) >= NumValidators THEN k ELSE LevelsFrom(k + 1)

\* partitioner.levels(): the number L of the final level.
levels == LevelsFrom(1)

\* partitioner.size()
size == NumValidators

\* partitioner.identities_on(level), defined for 1 <= level < levels.
identities_on(level) ==
    { i \in ValidatorIds :
        /\ i \div Pow2(level) = OwnId \div Pow2(level)
        /\ i \div Pow2(level - 1) # OwnId \div Pow2(level - 1) }

\* partitioner.level_size(level) = |identities_on(level)|
level_size(level) == Cardinality(identities_on(level))

(***************************************************************************)
(* Registry.  A contribution is modelled by its contributors bitset, a set *)
(* of slots; the slot NumValidators is one the registry does not know.     *)
(***************************************************************************)

UnknownSlot == NumValidators

Slots == ValidatorIds \cup {UnknownSlot}

\* registry.signers_identity(bitset): the projection onto the known validators.
signers_identity(contributors) == contributors \cap ValidatorIds

\* Per-signer weight: uniform weight 1.
SignerWeight == 1

\* registry.signature_weight(contribution).unwrap_or(0): the sum of the signers'
\* weights, None (here 0) if a signer is unknown.
signature_weight_or_0(contributors) ==
    IF contributors \subseteq ValidatorIds
    THEN Cardinality(contributors) * SignerWeight
    ELSE 0

(***************************************************************************)
(* Contribution store: one LevelState per level 1..levels.  best is an     *)
(* Option, modelled as a set holding no or one contributors bitset;        *)
(* individuals is the set of validators whose individual is stored.        *)
(***************************************************************************)

StoreLevels == 1 .. levels

EmptyLevel == [best |-> {}, individuals |-> {}]

EmptyStore == [l \in StoreLevels |-> EmptyLevel]

\* store.best(level)
best(st, level) == st[level].best

\* store.individual_verified(level)
individual_verified(st, level) == st[level].individuals

\* store.individual_signature(level, identity).is_some(), for a single signer.
individual_signature_is_some(st, level, identity) ==
    identity \subseteq st[level].individuals

\* Faulty variant of put_best: every proposal replaces the best.
put_best_always(st, level, contributors) ==
    [st EXCEPT ![level].best = {contributors}]

\* Faulty variant of put_best: a proposal that is a part of the best replaces
\* it as well.
put_best_comparable(st, level, contributors) ==
    IF \/ st[level].best = {}
       \/ \E b \in st[level].best :
              /\ b # contributors
              /\ (b \subseteq contributors \/ contributors \subseteq b)
    THEN [st EXCEPT ![level].best = {contributors}]
    ELSE st

\* store.put_best(level, c): replaces the best only if there is none or c's
\* contributors are a strict superset of the current best's.
put_best(st, level, contributors) ==
    IF \/ st[level].best = {}
       \/ \E b \in st[level].best : b \subseteq contributors /\ b # contributors
    THEN [st EXCEPT ![level].best = {contributors}]
    ELSE st

\* store.put_individual(level, c): precondition |c.contributors| = 1; idempotent.
put_individual(st, level, contributors) ==
    [st EXCEPT ![level].individuals = @ \cup contributors]

(***************************************************************************)
(* WeightedVote: the scoring constants.                                    *)
(***************************************************************************)

COMPLETES_LEVEL_BASE_SCORE == 1000000

COMPLETES_LEVEL_LEVEL_PENALTY == 10

IMPROVEMENT_BASE_SCORE == 100000

IMPROVEMENT_LEVEL_PENALTY == 100

IMPROVEMENT_ADDED_SIG_BONUS == 10

\* usize::MAX.  TLC's integers are 32 bits wide, so its largest integer stands
\* for the largest usize; every other score is at most COMPLETES_LEVEL_BASE_SCORE.
USIZE_MAX == 2147483647

(***************************************************************************)
(* Identity operations used by the evaluator.                              *)
(***************************************************************************)

\* Identity::is_superset_of
is_superset_of(self, other) == other \subseteq self

\* Identity::intersection_size
intersection_size(self, other) == Cardinality(self \cap other)

\* Identity::combine(other, allow_overlap): the union.  The disjointness that
\* allow_overlap = false demands is the caller's obligation.
combine(self, other) == self \cup other

\* Identity ^ Identity: the symmetric difference.
symmetric_difference(a, b) == (a \ b) \cup (b \ a)

(***************************************************************************)
(* WeightedVote::evaluate                                                  *)
(***************************************************************************)

\* Faulty variant of is_final_level: the comparison is strict.
is_final_level_strict(level) == level > levels

\* Special case for final aggregations (evaluator.rs:123).
is_final_level(level) == level = levels

\* Faulty variant of already_known: is_some() taken for is_none().
already_known_negated(st, level, identity) ==
    /\ Cardinality(identity) = 1
    /\ ~individual_signature_is_some(st, level, identity)

\* A single signer whose individual is already known for the level
\* (evaluator.rs:138).
already_known(st, level, identity) ==
    /\ Cardinality(identity) = 1
    /\ individual_signature_is_some(st, level, identity)

\* Faulty variant of best_is_complete: the best is measured against partitioner.size()
\* instead of the level's size.
best_is_complete_of_size(level_identity_count, best_contributors) ==
    size = Cardinality(best_contributors)

\* The best signature for the level is already complete (evaluator.rs:155).
best_is_complete(level_identity_count, best_contributors) ==
    level_identity_count = Cardinality(best_contributors)

\* Faulty variant of best_is_better: receiver and argument of is_superset_of swapped.
best_is_better_swapped(best_contributors, identity) ==
    is_superset_of(identity, best_contributors)

\* The best signature is at least as good as the new one (evaluator.rs:160).
best_is_better(best_contributors, identity) ==
    is_superset_of(best_contributors, identity)

\* Faulty variant of totals: without a best, added_sigs and combined_sigs are swapped.
totals_swapped(best_contribution, identity, with_individuals) ==
    IF best_contribution # {}
    THEN LET best_contributors ==
                 signers_identity(CHOOSE b \in best_contribution : TRUE)
         IN  IF intersection_size(identity, best_contributors) > 0
             THEN LET new_total == Cardinality(with_individuals)
                  IN  [new_total     |-> new_total,
                       added_sigs    |-> new_total - Cardinality(best_contributors),
                       combined_sigs |-> new_total - Cardinality(identity)]
             ELSE LET final_sig == combine(with_individuals, best_contributors)
                      without_individuals == combine(best_contributors, identity)
                      new_total == Cardinality(final_sig)
                  IN  [new_total     |-> new_total,
                       added_sigs    |-> new_total - Cardinality(best_contributors),
                       combined_sigs |->
                           Cardinality(symmetric_difference(final_sig,
                                                            without_individuals))]
    ELSE LET new_total == Cardinality(with_individuals)
         IN  [new_total     |-> new_total,
              added_sigs    |-> new_total - Cardinality(identity),
              combined_sigs |-> new_total]

\* (new_total, added_sigs, combined_sigs) of evaluator.rs:172-229.
\* best_contribution is the Option returned by store.best(level).
totals(best_contribution, identity, with_individuals) ==
    IF best_contribution # {}
    THEN LET best_contributors ==
                 signers_identity(CHOOSE b \in best_contribution : TRUE)
         IN  IF intersection_size(identity, best_contributors) > 0
             THEN LET new_total == Cardinality(with_individuals)
                  IN  [new_total     |-> new_total,
                       added_sigs    |-> new_total - Cardinality(best_contributors),
                       combined_sigs |-> new_total - Cardinality(identity)]
             ELSE LET final_sig == combine(with_individuals, best_contributors)
                      without_individuals == combine(best_contributors, identity)
                      new_total == Cardinality(final_sig)
                  IN  [new_total     |-> new_total,
                       added_sigs    |-> new_total - Cardinality(best_contributors),
                       combined_sigs |->
                           Cardinality(symmetric_difference(final_sig,
                                                            without_individuals))]
    ELSE LET new_total == Cardinality(with_individuals)
         IN  [new_total     |-> new_total,
              added_sigs    |-> new_total,
              combined_sigs |-> new_total - Cardinality(identity)]

\* No call combine(other, allow_overlap = false) is made.
NoDisjointUnion == [executed |-> FALSE]

\* A call self.combine(other, allow_overlap = false) with its operands.
DisjointUnion(self, other) == [executed |-> TRUE, self |-> self, other |-> other]

\* Faulty variant of disjoint_union: the overlap test of line 178 is left out.
disjoint_union_unguarded(best_contribution, identity) ==
    IF best_contribution # {}
    THEN DisjointUnion(signers_identity(CHOOSE b \in best_contribution : TRUE),
                       identity)
    ELSE NoDisjointUnion

\* The call without_individuals.combine(&identity, false) of evaluator.rs:199,
\* made in the branch of 188-208 only.
disjoint_union(best_contribution, identity) ==
    IF best_contribution # {}
    THEN LET best_contributors ==
                 signers_identity(CHOOSE b \in best_contribution : TRUE)
         IN  IF intersection_size(identity, best_contributors) > 0
             THEN NoDisjointUnion
             ELSE DisjointUnion(best_contributors, identity)
    ELSE NoDisjointUnion

\* Faulty variant of compute_score: added_sigs < 0 instead of added_sigs <= 0.
compute_score_strict(contribution, identity, level, level_identity_count, t) ==
    IF t.added_sigs < 0
    THEN IF Cardinality(identity) = 1
         THEN signature_weight_or_0(contribution)
         ELSE 0
    ELSE IF t.new_total = level_identity_count
         THEN COMPLETES_LEVEL_BASE_SCORE
                  - level * COMPLETES_LEVEL_LEVEL_PENALTY
                  - t.combined_sigs
         ELSE IMPROVEMENT_BASE_SCORE - level * IMPROVEMENT_LEVEL_PENALTY
                  + t.added_sigs * IMPROVEMENT_ADDED_SIG_BONUS
                  - t.combined_sigs

\* Faulty variant of compute_score: the two base scores are swapped.
compute_score_bases_swapped(contribution, identity, level, level_identity_count, t) ==
    IF t.added_sigs <= 0
    THEN IF Cardinality(identity) = 1
         THEN signature_weight_or_0(contribution)
         ELSE 0
    ELSE IF t.new_total = level_identity_count
         THEN IMPROVEMENT_BASE_SCORE
                  - level * COMPLETES_LEVEL_LEVEL_PENALTY
                  - t.combined_sigs
         ELSE COMPLETES_LEVEL_BASE_SCORE - level * IMPROVEMENT_LEVEL_PENALTY
                  + t.added_sigs * IMPROVEMENT_ADDED_SIG_BONUS
                  - t.combined_sigs

\* The score of evaluator.rs:231-255.
compute_score(contribution, identity, level, level_identity_count, t) ==
    IF t.added_sigs <= 0
    THEN IF Cardinality(identity) = 1
         THEN signature_weight_or_0(contribution)
         ELSE 0
    ELSE IF t.new_total = level_identity_count
         THEN COMPLETES_LEVEL_BASE_SCORE
                  - level * COMPLETES_LEVEL_LEVEL_PENALTY
                  - t.combined_sigs
         ELSE IMPROVEMENT_BASE_SCORE - level * IMPROVEMENT_LEVEL_PENALTY
                  + t.added_sigs * IMPROVEMENT_ADDED_SIG_BONUS
                  - t.combined_sigs

\* One of the usize subtractions of the score (evaluator.rs:244-246, 253-255)
\* has a subtrahend above its minuend.  The expressions are evaluated left to
\* right.
score_underflows(level, level_identity_count, t) ==
    IF t.added_sigs <= 0
    THEN FALSE
    ELSE IF t.new_total = level_identity_count
         THEN LET penalty == level * COMPLETES_LEVEL_LEVEL_PENALTY
              IN  \/ COMPLETES_LEVEL_BASE_SCORE < penalty
                  \/ COMPLETES_LEVEL_BASE_SCORE - penalty < t.combined_sigs
         ELSE LET penalty == level * IMPROVEMENT_LEVEL_PENALTY
              IN  \/ IMPROVEMENT_BASE_SCORE < penalty
                  \/ IMPROVEMENT_BASE_SCORE - penalty
                         + t.added_sigs * IMPROVEMENT_ADDED_SIG_BONUS
                     < t.combined_sigs

\* evaluate(contribution, level, id), its reads store.individual_signature,
\* store.best and store.individual_verified made of the stores signatures,
\* bests and verified.  The aggregation id is only logged.
evaluate_over(signatures, bests, verified, contribution, level) ==
    IF is_final_level(level)
    THEN USIZE_MAX
    ELSE LET identity == signers_identity(contribution)
         IN  IF identity = {}
             THEN 0
             ELSE IF already_known(signatures, level, identity)
             THEN 0
             ELSE LET level_identity_count == level_size(level)
                      best_contribution == best(bests, level)
                      rejected ==
                          /\ best_contribution # {}
                          /\ LET best_contributors ==
                                     signers_identity(
                                         CHOOSE b \in best_contribution : TRUE)
                             IN  \/ best_is_complete(level_identity_count,
                                                     best_contributors)
                                 \/ best_is_better(best_contributors, identity)
                  IN  IF rejected
                      THEN 0
                      ELSE LET with_individuals ==
                                   combine(identity,
                                           individual_verified(verified, level))
                           IN  compute_score(contribution, identity, level,
                                   level_identity_count,
                                   totals(best_contribution, identity,
                                          with_individuals))

\* evaluate against the store st: the three reads are made under one read
\* guard (evaluator.rs:127), so they see the same store.
evaluate(st, contribution, level) ==
    evaluate_over(st, st, st, contribution, level)

(***************************************************************************)
(* WeightedVote::verify.  A LevelUpdate is a record                        *)
(*   [aggregate, individual, level, origin]                                *)
(* where individual is an Option: a set holding no or one contributors     *)
(* bitset.                                                                 *)
(***************************************************************************)

Ok == [kind |-> "Ok"]

InvalidLevel(level, num_levels) ==
    [kind |-> "InvalidLevel", level |-> level, num_levels |-> num_levels]

InvalidFullAggregate(weight, expected_weight) ==
    [kind |-> "InvalidFullAggregate", weight |-> weight,
     expected_weight |-> expected_weight]

InvalidOrigin(origin, allowed_contributors) ==
    [kind |-> "InvalidOrigin", origin |-> origin,
     allowed_contributors |-> allowed_contributors]

InvalidIndividualContribution(num_contributors, contains_origin) ==
    [kind |-> "InvalidIndividualContribution",
     num_contributors |-> num_contributors,
     contains_origin |-> contains_origin]

InvalidContributors(contributors, allowed_contributors) ==
    [kind |-> "InvalidContributors", contributors |-> contributors,
     allowed_contributors |-> allowed_contributors]

\* Faulty variant of level_out_of_bounds: the final level is taken for out of bounds.
level_out_of_bounds_inclusive(level, num_levels) ==
    level >= num_levels \/ level < 1

\* The level is out of bounds (evaluator.rs:262).
level_out_of_bounds(level, num_levels) == level > num_levels \/ level < 1

\* Faulty variant of individual_error: the two conditions joined by && instead of ||.
individual_error_and(individual, origin) ==
    IF individual = {}
    THEN {}
    ELSE LET individual_contributors ==
                 signers_identity(CHOOSE i \in individual : TRUE)
             num_contributors == Cardinality(individual_contributors)
             contains_origin == origin \in individual_contributors
         IN  IF num_contributors # 1 /\ ~contains_origin
             THEN {InvalidIndividualContribution(num_contributors,
                                                 contains_origin)}
             ELSE {}

\* The check of the individual contribution against the origin
\* (evaluator.rs:299-309): the error it raises, if any, as an Option.
individual_error(individual, origin) ==
    IF individual = {}
    THEN {}
    ELSE LET individual_contributors ==
                 signers_identity(CHOOSE i \in individual : TRUE)
             num_contributors == Cardinality(individual_contributors)
             contains_origin == origin \in individual_contributors
         IN  IF num_contributors # 1 \/ ~contains_origin
             THEN {InvalidIndividualContribution(num_contributors,
                                                 contains_origin)}
             ELSE {}

\* Faulty variant of verify_level: the contributors are checked before the
\* individual contribution.
verify_level_contributors_first(msg, level, contributors) ==
    LET allowed_contributors == identities_on(level)
        origin == msg.origin
    IN  IF origin \notin allowed_contributors
        THEN InvalidOrigin(origin, allowed_contributors)
        ELSE IF ~is_superset_of(allowed_contributors, contributors)
        THEN InvalidContributors(contributors, allowed_contributors)
        ELSE IF individual_error(msg.individual, origin) # {}
        THEN CHOOSE e \in individual_error(msg.individual, origin) : TRUE
        ELSE Ok

\* Faulty variant of verify_level: receiver and argument of is_superset_of swapped.
verify_level_swapped(msg, level, contributors) ==
    LET allowed_contributors == identities_on(level)
        origin == msg.origin
    IN  IF origin \notin allowed_contributors
        THEN InvalidOrigin(origin, allowed_contributors)
        ELSE IF individual_error(msg.individual, origin) # {}
        THEN CHOOSE e \in individual_error(msg.individual, origin) : TRUE
        ELSE IF ~is_superset_of(contributors, allowed_contributors)
        THEN InvalidContributors(contributors, allowed_contributors)
        ELSE Ok

\* The checks of an update below the final level (evaluator.rs:282-319).
verify_level(msg, level, contributors) ==
    LET allowed_contributors == identities_on(level)
        origin == msg.origin
    IN  IF origin \notin allowed_contributors
        THEN InvalidOrigin(origin, allowed_contributors)
        ELSE IF individual_error(msg.individual, origin) # {}
        THEN CHOOSE e \in individual_error(msg.individual, origin) : TRUE
        ELSE IF ~is_superset_of(allowed_contributors, contributors)
        THEN InvalidContributors(contributors, allowed_contributors)
        ELSE Ok

\* The check of a full aggregation at level num_levels (evaluator.rs:269-280).
verify_full(contributors) ==
    LET weight == Cardinality(contributors)
        expected_weight == size
    IN  IF weight # expected_weight
        THEN InvalidFullAggregate(weight, expected_weight)
        ELSE Ok

\* Faulty variant of verify: the aggregate's bitset is not mapped by signers_identity.
verify_raw(msg) ==
    LET level == msg.level
        num_levels == levels
    IN  IF level_out_of_bounds(level, num_levels)
        THEN InvalidLevel(level, num_levels)
        ELSE LET contributors == msg.aggregate
             IN  IF level = num_levels
                 THEN verify_full(contributors)
                 ELSE verify_level(msg, level, contributors)

\* verify(msg)
verify(msg) ==
    LET level == msg.level
        num_levels == levels
    IN  IF level_out_of_bounds(level, num_levels)
        THEN InvalidLevel(level, num_levels)
        ELSE LET contributors == signers_identity(msg.aggregate)
             IN  IF level = num_levels
                 THEN verify_full(contributors)
                 ELSE verify_level(msg, level, contributors)

(***************************************************************************)
(* The inputs the model draws.                                             *)
(***************************************************************************)

\* The slots of the contributions scored at a level: the level's identities,
\* one validator outside the level and the slot the registry does not know.
EvalSlots(level) ==
    IF level < levels
    THEN identities_on(level) \cup {OwnId, UnknownSlot}
    ELSE {OwnId, UnknownSlot}

\* The fields of the update messages handed to verify: any aggregate, any
\* level 0..levels+1, any origin, and no individual or one made of the origin,
\* another validator and the unknown slot.
UpdateAggregates == SUBSET Slots

UpdateIndividuals(origin) ==
    {{}} \cup { {x} : x \in SUBSET {origin, OwnId, UnknownSlot} }

UpdateLevels == 0 .. (levels + 1)

UpdateOrigins == ValidatorIds

LevelUpdate(aggregate, individual, level, origin) ==
    [aggregate |-> aggregate, individual |-> individual, level |-> level,
     origin |-> origin]

\* The fields of the update messages that reach the aggregation from its peers.
ReceivedAggregates(level) ==
    IF level < levels
    THEN SUBSET (identities_on(level) \cup {OwnId})
    ELSE {ValidatorIds, ValidatorIds \ {OwnId}}

ReceivedOrigins(level) ==
    IF level < levels
    THEN identities_on(level) \cup {OwnId}
    ELSE identities_on(1)

ReceivedIndividuals(level, origin) ==
    IF level < levels THEN {{}, {{origin}}, {{OwnId}}} ELSE {{}}

(***************************************************************************)
(* The framed message codec (message_codec/reader.rs): a reader that       *)
(* decodes frames, a header carrying the payload length and then the       *)
(* payload, from an inner byte stream.  A byte is a number 0..BadByte.     *)
(***************************************************************************)

\* Bound: the number of distinct messages a writer can put on the stream.
NumMessages == 2

Messages == 1 .. NumMessages

\* Bytes are the digits 0..ByteRadix-1 and one more value, BadByte, that the
\* header deserializer rejects.
ByteRadix == NumMessages + 1

BadByte == ByteRadix

Zeros(n) == [i \in 1 .. n |-> 0]

\* The serialization of the message type: message m is the byte m followed
\* by m-1 zero bytes, so that messages differ in length and some end in 0.
serialize(message) == <<message>> \o Zeros(message - 1)

serialized_size(message) == Len(serialize(message))

\* M::deserialize_from_vec: the message the bytes are the serialization of.
M_deserialize_from_vec(bytes) ==
    IF \E m \in Messages : serialize(m) = bytes
    THEN [ok |-> TRUE, message |-> CHOOSE m \in Messages : serialize(m) = bytes]
    ELSE [ok |-> FALSE]

\* Header: a fixed number of bytes holding the payload length, big-endian.
Header_SIZE == 2

Header_new(n) == [size |-> n]

RECURSIVE be_bytes(_, _)
be_bytes(value, n) ==
    IF n = 0 THEN <<>>
    ELSE Append(be_bytes(value \div ByteRadix, n - 1), value % ByteRadix)

RECURSIVE be_value(_)
be_value(bytes) ==
    IF bytes = <<>> THEN 0
    ELSE be_value(SubSeq(bytes, 1, Len(bytes) - 1)) * ByteRadix
         + bytes[Len(bytes)]

Header_serialize(header) == be_bytes(header.size, Header_SIZE)

\* Header::deserialize_from_vec: fails on a byte that is no digit.
Header_deserialize_from_vec(bytes) ==
    IF \E i \in 1 .. Len(bytes) : bytes[i] = BadByte
    THEN [ok |-> FALSE]
    ELSE [ok |-> TRUE, header |-> Header_new(be_value(bytes))]

\* put_message of the tests: the header with the serialized size, then the
\* serialized message.
put_message(message) ==
    Header_serialize(Header_new(serialized_size(message))) \o serialize(message)

\* The results of polling.
Pending == [poll |-> "Pending"]

ReadyOk(value) == [poll |-> "Ready", ok |-> TRUE, value |-> value]

ReadyErr == [poll |-> "Ready", ok |-> FALSE]

ReadyNone == [poll |-> "Ready", item |-> "None"]

SomeOk(message) == [poll |-> "Ready", item |-> "Ok", message |-> message]

SomeErr(error) == [poll |-> "Ready", item |-> "Err", error |-> error]

\* DeserializeError: the end of the input came too early, or the bytes are
\* not a value of the type.
unexpected_end == "UnexpectedEnd"

decode_error == "DecodeError"

unexpected_eof == SomeErr(unexpected_end)

\* Faulty variant of read_to_buf: the bytes read before a Pending are cut off
\* the buffer with the padding.
read_to_buf_pending_drops(buffer, wanted_len, incoming, outcome) ==
    LET len_buffer_read == Len(buffer) + Len(incoming)
        read == buffer \o incoming
    IN  IF Len(buffer) >= wanted_len
        THEN [buffer |-> buffer, poll |-> ReadyOk(TRUE)]
        ELSE CASE outcome = "eof" ->
                      [buffer |-> read, poll |-> ReadyOk(FALSE)]
               [] outcome = "err" ->
                      [buffer |-> read \o Zeros(wanted_len - len_buffer_read),
                       poll |-> ReadyErr]
               [] outcome = "pending" ->
                      [buffer |-> buffer, poll |-> Pending]
               [] OTHER ->
                      [buffer |-> read, poll |-> ReadyOk(TRUE)]

\* Faulty variant of read_to_buf: at the end of the stream the buffer is not
\* cut back to the bytes read and keeps its zero padding.
read_to_buf_eof_keeps_padding(buffer, wanted_len, incoming, outcome) ==
    LET len_buffer_read == Len(buffer) + Len(incoming)
        read == buffer \o incoming
    IN  IF Len(buffer) >= wanted_len
        THEN [buffer |-> buffer, poll |-> ReadyOk(TRUE)]
        ELSE CASE outcome = "eof" ->
                      [buffer |-> read \o Zeros(wanted_len - len_buffer_read),
                       poll |-> ReadyOk(FALSE)]
               [] outcome = "err" ->
                      [buffer |-> read \o Zeros(wanted_len - len_buffer_read),
                       poll |-> ReadyErr]
               [] outcome = "pending" ->
                      [buffer |-> read, poll |-> Pending]
               [] OTHER ->
                      [buffer |-> read, poll |-> ReadyOk(TRUE)]

\* read_to_buf(reader, buffer, wanted_len, cx).  incoming is what the inner
\* reader's poll_read calls of this call deliver before the one that ends it,
\* outcome is how the call ends: "data" (the buffer is full), "eof" (a read of
\* 0 bytes), "pending" or "err".
read_to_buf(buffer, wanted_len, incoming, outcome) ==
    LET len_buffer_read == Len(buffer) + Len(incoming)
        read == buffer \o incoming
    IN  IF Len(buffer) >= wanted_len
        THEN [buffer |-> buffer, poll |-> ReadyOk(TRUE)]
        ELSE CASE outcome = "eof" ->
                      [buffer |-> read, poll |-> ReadyOk(FALSE)]
               [] outcome = "err" ->
                      [buffer |-> read \o Zeros(wanted_len - len_buffer_read),
                       poll |-> ReadyErr]
               [] outcome = "pending" ->
                      [buffer |-> read, poll |-> Pending]
               [] OTHER ->
                      [buffer |-> read, poll |-> ReadyOk(TRUE)]

\* enum ReaderState.
ReaderState_Head == [tag |-> "Head"]

ReaderState_Data(header) == [tag |-> "Data", header |-> header]

\* MessageReader::new.
MessageReader_new == [state |-> ReaderState_Head, buffer |-> <<>>]

\* MessageReader::into_other (reader.rs:94-108): the state the panic guards
\* on is the literal ReaderState::Head, not self.state; the new reader starts
\* in Head over the same inner reader and the same buffer.
into_other(self) ==
    LET matched == ReaderState_Head
    IN  IF matched.tag = "Data"
        THEN [panicked |-> TRUE, reader |-> self]
        ELSE [panicked |-> FALSE,
              reader |-> [state |-> ReaderState_Head, buffer |-> self.buffer]]

\* The length poll_next asks read_to_buf for.
wanted_len(self) ==
    IF self.state = ReaderState_Head THEN Header_SIZE ELSE self.state.header.size

\* Faulty variant of head_eof: the end of the stream inside a header is
\* reported as the end of the messages.
head_eof_always_none(buffer) == ReadyNone

\* poll_next, state Head, read_to_buf returned Ok(false): the stream ended.
head_eof(buffer) ==
    IF buffer = <<>> THEN ReadyNone ELSE unexpected_eof

\* Faulty variant of head_decoded: a header that does not decode is taken for
\* a header of length 0.
head_decoded_lenient(self, buffer) ==
    LET decoded == Header_deserialize_from_vec(buffer)
    IN  IF ~decoded.ok
        THEN [reader |-> [state |-> ReaderState_Data(Header_new(0)),
                          buffer |-> <<>>],
              item |-> SomeErr(decode_error)]
        ELSE [reader |-> [state |-> ReaderState_Data(decoded.header),
                          buffer |-> <<>>],
              item |-> Pending]

\* poll_next, state Head, the buffer holds Header::SIZE bytes: decode the
\* header; on failure return the error, otherwise clear the buffer, go to
\* Data and return Pending after waking the task.
head_decoded(self, buffer) ==
    LET decoded == Header_deserialize_from_vec(buffer)
    IN  IF ~decoded.ok
        THEN [reader |-> [self EXCEPT !.buffer = buffer],
              item |-> SomeErr(decode_error)]
        ELSE [reader |-> [state |-> ReaderState_Data(decoded.header),
                          buffer |-> <<>>],
              item |-> Pending]

\* Faulty variant of data_decoded: the payload stays in the buffer.
data_decoded_keeps_buffer(self, buffer) ==
    LET decoded == M_deserialize_from_vec(buffer)
    IN  IF ~decoded.ok
        THEN [reader |-> [self EXCEPT !.buffer = buffer],
              item |-> SomeErr(decode_error)]
        ELSE [reader |-> [state |-> ReaderState_Head, buffer |-> buffer],
              item |-> SomeOk(decoded.message)]

\* poll_next, state Data, the buffer holds header.size bytes: decode the
\* message; on failure return the error, otherwise go to Head, clear the
\* buffer and return the message.
data_decoded(self, buffer) ==
    LET decoded == M_deserialize_from_vec(buffer)
    IN  IF ~decoded.ok
        THEN [reader |-> [self EXCEPT !.buffer = buffer],
              item |-> SomeErr(decode_error)]
        ELSE [reader |-> [state |-> ReaderState_Head, buffer |-> <<>>],
              item |-> SomeOk(decoded.message)]

\* MessageReader::poll_next, given what its call of read_to_buf returned.
poll_next(self, rd) ==
    LET buffered == [self EXCEPT !.buffer = rd.buffer]
    IN  IF self.state = ReaderState_Head
        THEN CASE rd.poll = Pending ->
                      [reader |-> buffered, item |-> Pending]
               [] rd.poll = ReadyErr ->
                      [reader |-> buffered, item |-> SomeErr(unexpected_end)]
               [] rd.poll = ReadyOk(FALSE) ->
                      [reader |-> buffered, item |-> head_eof(rd.buffer)]
               [] OTHER -> head_decoded(self, rd.buffer)
        ELSE CASE rd.poll = Pending ->
                      [reader |-> buffered, item |-> Pending]
               [] rd.poll = ReadyErr ->
                      [reader |-> buffered, item |-> SomeErr(unexpected_end)]
               [] rd.poll = ReadyOk(FALSE) ->
                      [reader |-> buffered, item |-> unexpected_eof]
               [] OTHER -> data_decoded(self, rd.buffer)

(***************************************************************************)
(* The aggregation driver: level activation.  The levels 1..current_level  *)
(* are active; fired holds the levels whose timeout T_level has fired.     *)
(***************************************************************************)

\* The driver state of a new aggregation: current_level: 1.
Aggregation_new == [current_level |-> 1, fired |-> {}]

\* The level is complete: its best holds level_size(level) contributors.
level_is_complete(st, level) ==
    \E b \in best(st, level) :
        Cardinality(signers_identity(b)) = level_size(level)

\* Faulty variant of may_open: the next level opens at any time.
may_open_always(st, drv) == TRUE

\* Level current_level + 1 opens when level current_level is complete or
\* after its timeout.
may_open(st, drv) ==
    \/ level_is_complete(st, drv.current_level)
    \/ drv.current_level \in drv.fired

(***************************************************************************)
(* A network of ScenarioSize validators of weight 1 that aggregate         *)
(* together: every validator runs the driver over its own partitioner and  *)
(* store.                                                                  *)
(***************************************************************************)

ScenarioSize == 4

ScenarioNodes == 0 .. (ScenarioSize - 1)

\* partitioner.levels() of the network: the number of its final level.
ScenarioLevels ==
    CHOOSE k \in 1 .. ScenarioSize :
        /\ Pow2(k - 1) >= ScenarioSize
        /\ \A j \in 1 .. (k - 1) : Pow2(j - 1) < ScenarioSize

\* Faulty variant of scenario_identities_on: the peers of a level are those
\* of the level below.
scenario_identities_on_below(node, level) ==
    { i \in ScenarioNodes :
        /\ i \div Pow2(level - 1) = node \div Pow2(level - 1)
        /\ i # node }

\* partitioner.identities_on(level) of the validator `node`.
scenario_identities_on(node, level) ==
    { i \in ScenarioNodes :
        /\ i \div Pow2(level) = node \div Pow2(level)
        /\ i \div Pow2(level - 1) # node \div Pow2(level - 1) }

\* The aggregation of a validator at the start: an empty store (its own
\* individual contribution is level 0) and no result.
Scenario_new ==
    [n \in ScenarioNodes |->
        [store |-> [l \in 1 .. ScenarioLevels |-> EmptyLevel], result |-> {}]]

\* The contributors of best(level), none when there is no best.
scenario_best(st, level) == UNION st[level].best

\* The validator's own individual aggregated with the bests of the levels
\* 1..level.
scenario_combined(node, st, level) ==
    {node} \cup UNION { scenario_best(st, k) : k \in 1 .. level }

\* Level activation without timeouts: level 1 is active from the start,
\* level l+1 once level l is complete.
scenario_active(node, st, level) ==
    IF level = 1 THEN TRUE
    ELSE scenario_best(st, level - 1) = scenario_identities_on(node, level - 1)

\* evaluator.verify of the validator `node`: a final update holds every
\* validator; at a lower level the origin and the contributors are
\* identities of the level and the individual is the origin's.
scenario_verify(node, msg) ==
    IF msg.level = ScenarioLevels
    THEN msg.aggregate = ScenarioNodes
    ELSE /\ msg.level \in 1 .. (ScenarioLevels - 1)
         /\ msg.origin \in scenario_identities_on(node, msg.level)
         /\ msg.aggregate \subseteq scenario_identities_on(node, msg.level)
         /\ msg.individual \subseteq {{msg.origin}}

\* The validator receives an update: a running aggregation merges it when
\* verify accepts it and it adds a contributor; a final update also resolves
\* the aggregation.
scenario_receive(node, agg, msg) ==
    IF \/ agg.result # {}
       \/ ~scenario_verify(node, msg)
       \/ msg.aggregate \subseteq scenario_best(agg.store, msg.level)
    THEN agg
    ELSE [store |-> put_best(agg.store, msg.level, msg.aggregate),
          result |-> IF msg.level = ScenarioLevels
                     THEN {msg.aggregate} ELSE {}]

(***************************************************************************)
(* The mock network (network-mock/src/network.rs): NumNetworks networks of *)
(* one hub.  The hub holds the addresses with a peer map, the is_connected *)
(* flag of every network, the request senders and the response senders;    *)
(* peers[a] is the peer map of the network at address a, shared between    *)
(* the network and the hub.                                                *)
(***************************************************************************)

\* Bound: the networks created on the hub.
NumNetworks == 2

Addresses == 1 .. NumNetworks

CantConnect(address) == [kind |-> "CantConnect", address |-> address]

NotConnected == [kind |-> "NotConnected"]

CantRespond(request_id) == [kind |-> "CantRespond", request_id |-> request_id]

\* The hub after MockNetwork::new of every address: each peer map is
\* registered, each is_connected flag is false.
MockHub_new ==
    [peer_maps |-> Addresses,
     is_connected |-> [a \in Addresses |-> FALSE],
     request_senders |-> [a \in Addresses |-> "none"],
     response_senders |-> {},
     next_request_id |-> 0]

\* dial_mock_address(address) on the network at self (network.rs:120-156):
\* only the dialled address is looked up in the hub's peer maps.
dial_mock_address(h, ps, self, address) ==
    IF address \notin h.peer_maps
    THEN [result |-> CantConnect(address), hub |-> h, peers |-> ps]
    ELSE IF self \notin ps[address]
    THEN [result |-> Ok,
          hub |-> [h EXCEPT !.is_connected =
                      [a \in Addresses |->
                          IF a \in {self, address} THEN TRUE ELSE @[a]]],
          peers |-> [a \in Addresses |->
                        (IF a = address THEN ps[a] \cup {self} ELSE ps[a])
                            \cup (IF a = self THEN {address} ELSE {})]]
    ELSE [result |-> Ok, hub |-> h, peers |-> ps]

\* disconnect() on the network at self (network.rs:164-180).  remove_all
\* empties the own peer map; the caller is then removed from the peer map of
\* each former peer, in some order, and the call panics at the first one
\* that has no peer map in the hub, after those in done.
disconnect(h, ps, self, done) ==
    LET removed == [a \in Addresses |->
                       IF a = self THEN {}
                       ELSE IF a \in done THEN ps[a] \ {self} ELSE ps[a]]
    IN  IF ps[self] \subseteq h.peer_maps
        THEN [panicked |-> FALSE,
              hub |-> [h EXCEPT !.is_connected[self] = FALSE],
              peers |-> removed]
        ELSE [panicked |-> TRUE, hub |-> h, peers |-> removed]

\* The former peers a disconnect can have gone through: all of them, or, if
\* it panics, some of those that have a peer map.
DisconnectOrders(h, ps, self) ==
    IF ps[self] \subseteq h.peer_maps
    THEN {ps[self]}
    ELSE SUBSET (ps[self] \cap h.peer_maps)

\* shutdown() (network.rs:182-188): disconnect, then the own peer map is
\* taken out of the hub.
shutdown(h, ps, self, done) ==
    LET d == disconnect(h, ps, self, done)
    IN  IF d.panicked
        THEN d
        ELSE [d EXCEPT !.hub.peer_maps = @ \ {self}]

\* The test publish, unsubscribe, dht_get and dht_put start with
\* (network.rs:285, 312, 340, 358): the error it raises, if any.
gate(h, self) ==
    IF h.is_connected[self] THEN {} ELSE {NotConnected}

\* What the four calls return once past the gate; the topics and the DHT of
\* the hub are left out.
GatedCalls == {"publish", "unsubscribe", "dht_get", "dht_put"}

GatedResults(call) ==
    IF call = "unsubscribe"
    THEN {Ok, [kind |-> "AlreadyUnsubscribed"]}
    ELSE IF call = "dht_get"
    THEN {Ok, [kind |-> "Serialization"]}
    ELSE {Ok}

(***************************************************************************)
(* Requests and responses over the mock network (network.rs:381-522), for  *)
(* one message type.  hub.request_senders[a] is "none" until the network   *)
(* at a calls receive_requests, then "open", and "closed" once the stream  *)
(* it got is dropped.  hub.response_senders holds, per request id, the     *)
(* requester and the sender of a oneshot channel; futures[id] is the       *)
(* response future of request id: "none" (no such future), "waiting"       *)
(* (nothing sent, receiver alive), "data" or "garbage" (a response that    *)
(* does or does not deserialize was sent), "tx_dropped" (the sender was    *)
(* dropped), "elapsed" (the timer has fired and the receiver is dropped,   *)
(* the closure has not run yet), or the ResponseMessage it resolved with.  *)
(***************************************************************************)

\* Bound: the request ids the hub hands out.
MaxRequests == 2

RequestIds == 0 .. (MaxRequests - 1)

\* The ids respond is called with: those handed out and one that never is.
RespondIds == 0 .. MaxRequests

NoFuture == [state |-> "none"]

SendError == [kind |-> "SendError"]

ResponseSender(request_id, peer) == [request_id |-> request_id, peer |-> peer]

\* Faulty variant of request: hub.next_request_id is not incremented.
request_reuses_id(h, ps, fs, self, peer_id) ==
    IF peer_id \notin ps[self]
    THEN [result |-> SendError, hub |-> h, futures |-> fs]
    ELSE IF h.request_senders[peer_id] = "none"
    THEN [result |-> SendError, hub |-> h, futures |-> fs]
    ELSE LET request_id == h.next_request_id
             registered ==
                 [h EXCEPT !.response_senders =
                               @ \cup {ResponseSender(request_id, self)}]
         IN  IF h.request_senders[peer_id] = "closed"
             THEN [result |-> SendError,
                   hub |-> [registered EXCEPT !.response_senders =
                               @ \ {ResponseSender(request_id, self)}],
                   futures |-> fs]
             ELSE [result |-> [kind |-> "Ok", request_id |-> request_id],
                   hub |-> registered,
                   futures |-> [fs EXCEPT ![request_id] =
                                   [state |-> "waiting"]]]

\* request(request, peer_id) on the network at self (network.rs:381-470).
request(h, ps, fs, self, peer_id) ==
    IF peer_id \notin ps[self]
    THEN [result |-> SendError, hub |-> h, futures |-> fs]
    ELSE IF h.request_senders[peer_id] = "none"
    THEN [result |-> SendError, hub |-> h, futures |-> fs]
    ELSE LET request_id == h.next_request_id
             registered ==
                 [h EXCEPT !.response_senders =
                               @ \cup {ResponseSender(request_id, self)},
                           !.next_request_id = @ + 1]
         IN  IF h.request_senders[peer_id] = "closed"
             THEN [result |-> SendError,
                   hub |-> [registered EXCEPT !.response_senders =
                               @ \ {ResponseSender(request_id, self)}],
                   futures |-> fs]
             ELSE [result |-> [kind |-> "Ok", request_id |-> request_id],
                   hub |-> registered,
                   futures |-> [fs EXCEPT ![request_id] =
                                   [state |-> "waiting"]]]

\* Faulty variant of respond: the response sender is looked up and left in
\* the hub.
respond_keeps_sender(h, ps, fs, self, request_id, decodes) ==
    IF \E r \in h.response_senders : r.request_id = request_id
    THEN LET responder ==
                 CHOOSE r \in h.response_senders : r.request_id = request_id
         IN  IF responder.peer \notin ps[self]
             THEN [result |-> NotConnected, hub |-> h, futures |-> fs]
             ELSE IF fs[request_id].state = "elapsed"
             THEN [result |-> CantRespond(request_id), hub |-> h,
                   futures |-> fs]
             ELSE [result |-> Ok, hub |-> h,
                   futures |-> [fs EXCEPT ![request_id].state =
                                   IF decodes THEN "data" ELSE "garbage"]]
    ELSE [result |-> CantRespond(request_id), hub |-> h, futures |-> fs]

\* respond(request_id, response) on the network at self (network.rs:501-522).
\* The sender is taken out of the hub first; it is dropped if the requester
\* is no peer of the caller, and sending fails if the receiver is dropped.
respond(h, ps, fs, self, request_id, decodes) ==
    IF \E r \in h.response_senders : r.request_id = request_id
    THEN LET responder ==
                 CHOOSE r \in h.response_senders : r.request_id = request_id
             removed == [h EXCEPT !.response_senders = @ \ {responder}]
         IN  IF responder.peer \notin ps[self]
             THEN [result |-> NotConnected, hub |-> removed,
                   futures |-> [fs EXCEPT ![request_id].state =
                                   IF @ = "waiting" THEN "tx_dropped" ELSE @]]
             ELSE IF fs[request_id].state # "waiting"
             THEN [result |-> CantRespond(request_id), hub |-> removed,
                   futures |-> fs]
             ELSE [result |-> Ok, hub |-> removed,
                   futures |-> [fs EXCEPT ![request_id].state =
                                   IF decodes THEN "data" ELSE "garbage"]]
    ELSE [result |-> CantRespond(request_id), hub |-> h, futures |-> fs]

\* What the response future resolves with once the channel holds a response
\* or its sender is gone (network.rs:455-460).
resolved_with(state) ==
    IF state = "data" THEN "Response"
    ELSE IF state = "garbage" THEN "DeSerializationError"
    ELSE "SenderFutureDropped"

\* Faulty variant of timed_out: the response sender stays in the hub.
timed_out_keeps_sender(h, fs, request_id) ==
    [hub |-> h, futures |-> [fs EXCEPT ![request_id].state = "Timeout"]]

\* The closure of the response future after REQUEST_TIMEOUT has elapsed
\* (network.rs:461-464): the response sender is taken out of the hub.
timed_out(h, fs, request_id) ==
    [hub |-> [h EXCEPT !.response_senders =
                 {r \in @ : r.request_id # request_id}],
     futures |-> [fs EXCEPT ![request_id].state = "Timeout"]]

(***************************************************************************)
(* The state machine.  store is the contribution store; last is the call   *)
(* whose result its caller holds, Idle when there is none.  sent is the    *)
(* sequence of frames written to a byte stream, inner the reader of that   *)
(* stream (its bytes, the position read so far, the read errors it has     *)
(* returned), reader the MessageReader over inner, yielded the items the   *)
(* MessageReader has returned, driver the level activation of the          *)
(* aggregation driver, nodes the aggregations of the validators of a small *)
(* network, each with its store and its result.  worker is the position of *)
(* an evaluate call that reads the store next to its writers.  hub is the  *)
(* hub shared by the mock networks, peers the peer map of each network and *)
(* futures the response future of each request.                            *)
(***************************************************************************)

Idle == [op |-> "idle"]

\* No evaluate call is running next to the writers.
Worker_idle == [pc |-> "idle"]

\* The inner reader at the start of a byte stream.
Cursor_new(bytes) == [wire |-> bytes, pos |-> 0, errors |-> 0]

Init ==
    /\ store = EmptyStore
    /\ last = Idle
    /\ sent = <<>>
    /\ inner = Cursor_new(<<>>)
    /\ reader = MessageReader_new
    /\ yielded = <<>>
    /\ driver = Aggregation_new
    /\ nodes = Scenario_new
    /\ worker = Worker_idle
    /\ hub = MockHub_new
    /\ peers = [a \in Addresses |-> {}]
    /\ futures = [id \in RespondIds |-> NoFuture]

\* A call evaluate(contribution, level, id): reads the store, returns a score.
Evaluate(contribution, level) ==
    /\ last = Idle
    /\ last' = [op |-> "evaluate", contribution |-> contribution,
                level |-> level,
                score |-> evaluate(store, contribution, level)]
    /\ UNCHANGED <<store, readerVars, driverVars, taskVars, netVars>>

\* A call verify(msg): returns Ok or the verification error.
Verify(msg) ==
    /\ last = Idle
    /\ last' = [op |-> "verify", msg |-> msg, verdict |-> verify(msg)]
    /\ UNCHANGED <<store, readerVars, driverVars, taskVars, netVars>>

\* The caller consumes the result of the call.
Return ==
    /\ last # Idle
    /\ last' = Idle
    /\ UNCHANGED <<store, readerVars, driverVars, taskVars, netVars>>

\* The aggregation receives an update: it is dropped unless verify accepts it
\* and its aggregate scores above 0; otherwise the aggregate is proposed as the
\* level's best and the individual, if present, is stored.
Receive(msg) ==
    /\ last = Idle
    /\ verify(msg) = Ok
    /\ evaluate(store, msg.aggregate, msg.level) > 0
    /\ store' = LET merged == put_best(store, msg.level, msg.aggregate)
                IN  IF msg.individual = {}
                    THEN merged
                    ELSE put_individual(merged, msg.level,
                                        CHOOSE i \in msg.individual : TRUE)
    /\ UNCHANGED <<last, readerVars, driverVars, taskVars, netVars>>

\* One call is outstanding at a time: a new one starts when last is Idle.
Next ==
    \/ /\ last = Idle
       /\ \E l \in StoreLevels : \E c \in SUBSET EvalSlots(l) : Evaluate(c, l)
    \/ /\ last = Idle
       /\ \E l \in StoreLevels :
              \E a \in ReceivedAggregates(l), o \in ReceivedOrigins(l) :
                  \E i \in ReceivedIndividuals(l, o) :
                      Receive(LevelUpdate(a, i, l, o))
    \/ Return

\* The aggregation: updates are merged into the store and contributions scored.
Spec == Init /\ [][Next]_vars

NextVerify ==
    \/ /\ last = Idle
       /\ \E a \in UpdateAggregates, l \in UpdateLevels, o \in UpdateOrigins :
              \E i \in UpdateIndividuals(o) : Verify(LevelUpdate(a, i, l, o))
    \/ Return

\* verify as a function of the update alone.
SpecVerify == Init /\ [][NextVerify]_vars

(***************************************************************************)
(* The message reader over a byte stream.  The stream holds up to          *)
(* MaxFrames frames, each a message written by put_message or a malformed  *)
(* frame, and may end early; the inner reader delivers it in reads of any  *)
(* length, with Pending results and up to MaxReadErrors read errors.       *)
(***************************************************************************)

\* Bounds: the frames written to a stream, the read errors of the inner
\* reader, and the items a caller takes from the MessageReader.
MaxFrames == 2

MaxReadErrors == 1

MaxYielded == 4

MessageFrame(message) ==
    [kind |-> "message", message |-> message, bytes |-> put_message(message)]

\* A frame whose payload is the serialization of no message.
BadPayloadFrame ==
    [kind |-> "bad_payload",
     bytes |-> Header_serialize(Header_new(1)) \o <<0>>]

\* A frame whose header does not decode.
BadHeaderFrame ==
    [kind |-> "bad_header", bytes |-> <<BadByte>> \o Zeros(Header_SIZE - 1)]

Frames ==
    {MessageFrame(m) : m \in Messages} \cup {BadPayloadFrame, BadHeaderFrame}

FrameSeqs == UNION {[1 .. n -> Frames] : n \in 0 .. MaxFrames}

RECURSIVE Wire(_)
Wire(frames) ==
    IF frames = <<>> THEN <<>>
    ELSE frames[1].bytes \o Wire(SubSeq(frames, 2, Len(frames)))

InitReader ==
    /\ store = EmptyStore
    /\ last = Idle
    /\ sent \in FrameSeqs
    /\ \E cut \in 0 .. Len(Wire(sent)) :
           inner = Cursor_new(SubSeq(Wire(sent), 1, Len(Wire(sent)) - cut))
    /\ reader = MessageReader_new
    /\ yielded = <<>>
    /\ driver = Aggregation_new
    /\ nodes = Scenario_new
    /\ worker = Worker_idle
    /\ hub = MockHub_new
    /\ peers = [a \in Addresses |-> {}]
    /\ futures = [id \in RespondIds |-> NoFuture]

ReadOutcomes == {"data", "eof", "pending", "err"}

\* What the inner reader can do in one call of read_to_buf that needs `need`
\* more bytes: nothing when none is needed; otherwise it delivers count
\* bytes, all that are needed ("data"), or fewer and then the end of the
\* stream when no byte is left, Pending, or an error.
InnerCanRead(need, count, outcome) ==
    LET remaining == Len(inner.wire) - inner.pos
    IN  IF need <= 0
        THEN count = 0 /\ outcome = "data"
        ELSE /\ count <= need
             /\ count <= remaining
             /\ (outcome = "data") <=> (count = need)
             /\ (outcome = "eof") => (count = remaining)
             /\ (outcome = "err") => (inner.errors < MaxReadErrors)

\* A call of poll_next on the MessageReader.
PollNext(count, outcome) ==
    /\ last = Idle
    /\ Len(yielded) < MaxYielded
    /\ InnerCanRead(wanted_len(reader) - Len(reader.buffer), count, outcome)
    /\ LET incoming == SubSeq(inner.wire, inner.pos + 1, inner.pos + count)
           rd == read_to_buf(reader.buffer, wanted_len(reader), incoming,
                             outcome)
           res == poll_next(reader, rd)
       IN  /\ reader' = res.reader
           /\ inner' = [inner EXCEPT
                           !.pos = @ + count,
                           !.errors = @ + (IF rd.poll = ReadyErr THEN 1 ELSE 0)]
           /\ yielded' = IF res.item = Pending THEN yielded
                         ELSE Append(yielded, res.item)
           /\ last' = [op |-> "poll_next", state |-> reader.state,
                       read |-> rd.poll, buffer |-> rd.buffer,
                       item |-> res.item]
    /\ UNCHANGED <<store, sent, driverVars, taskVars, netVars>>

NextReader ==
    \/ /\ last = Idle
       /\ \E count \in 0 .. (Len(inner.wire) - inner.pos) :
              \E outcome \in ReadOutcomes : PollNext(count, outcome)
    \/ Return

SpecReader == InitReader /\ [][NextReader]_vars

\* A call into_other() on the reader; polling goes on with the reader it
\* returns.
IntoOther ==
    /\ last = Idle
    /\ LET res == into_other(reader)
       IN  /\ reader' = res.reader
           /\ last' = [op |-> "into_other", state |-> reader.state,
                       buffer |-> reader.buffer, panicked |-> res.panicked]
    /\ UNCHANGED <<store, sent, inner, yielded, driverVars, taskVars, netVars>>

NextConvert ==
    \/ NextReader
    \/ IntoOther

\* The message reader, polled and converted to a reader of another type.
SpecConvert == InitReader /\ [][NextConvert]_vars

(***************************************************************************)
(* The contribution store under any sequence of its write operations at    *)
(* the levels below the final one.                                         *)
(***************************************************************************)

\* The contributions proposed as the best of a level: the level's identities
\* and one validator outside the level, at least one signer.
StoreProposals(level) == (SUBSET (identities_on(level) \cup {OwnId})) \ {{}}

\* The individual contributions stored at a level.
StoreIndividuals(level) ==
    { {i} : i \in {j \in identities_on(level) :
                      \A k \in identities_on(level) : j <= k} }

\* A call store.put_best(level, c).
PutBest(level, contributors) ==
    /\ last = Idle
    /\ store' = put_best(store, level, contributors)
    /\ last' = [op |-> "put_best", level |-> level,
                contributors |-> contributors, before |-> best(store, level)]
    /\ UNCHANGED <<readerVars, driverVars, taskVars, netVars>>

\* A call store.put_individual(level, c).
PutIndividual(level, contributors) ==
    /\ last = Idle
    /\ store' = put_individual(store, level, contributors)
    /\ last' = [op |-> "put_individual", level |-> level,
                contributors |-> contributors, before |-> best(store, level)]
    /\ UNCHANGED <<readerVars, driverVars, taskVars, netVars>>

NextStore ==
    \/ /\ last = Idle
       /\ \E l \in 1 .. (levels - 1) :
              \E c \in StoreProposals(l) : PutBest(l, c)
    \/ /\ last = Idle
       /\ \E l \in 1 .. (levels - 1) :
              \E c \in StoreIndividuals(l) : PutIndividual(l, c)
    \/ Return

SpecStore == Init /\ [][NextStore]_vars

(***************************************************************************)
(* The aggregation driver: updates are received and merged, level timeouts *)
(* fire, levels open.  The timers and the opening of a level are steps of  *)
(* the driver's loop, which runs as long as the aggregation does: they are *)
(* weakly fair.  Nothing obliges a peer to send an update.                 *)
(***************************************************************************)

\* The timeout T_level(level) of a level below the top one fires.
LevelTimeout(level) ==
    /\ level \notin driver.fired
    /\ driver' = [driver EXCEPT !.fired = @ \cup {level}]
    /\ UNCHANGED <<store, last, readerVars, nodes, taskVars, netVars>>

\* The level after current_level becomes active.
OpenLevel ==
    /\ driver.current_level < levels - 1
    /\ may_open(store, driver)
    /\ driver' = [driver EXCEPT !.current_level = @ + 1]
    /\ UNCHANGED <<store, last, readerVars, nodes, taskVars, netVars>>

Timeouts == \E l \in 1 .. (levels - 2) : LevelTimeout(l)

\* The aggregates of the updates the driver receives at a level while its
\* levels open: one signer of the level, or all of them.
DriverAggregates(level) ==
    {identities_on(level)} \cup { {i} : i \in identities_on(level) }

NextDriver ==
    \/ /\ last = Idle
       /\ \E l \in 1 .. (levels - 1) :
              \E a \in DriverAggregates(l), o \in identities_on(l) :
                  Receive(LevelUpdate(a, {}, l, o))
    \/ Timeouts
    \/ OpenLevel

SpecDriver ==
    /\ Init
    /\ [][NextDriver]_vars
    /\ WF_vars(Timeouts)
    /\ WF_vars(OpenLevel)

(***************************************************************************)
(* The network of ScenarioSize validators.  A running aggregation keeps    *)
(* sending the aggregate of the levels below to the peers of each active   *)
(* level, in round-robin; an aggregation that holds every validator emits  *)
(* the final update and resolves; a final update reaches every peer.  All  *)
(* of these are weakly fair.                                               *)
(***************************************************************************)

\* The running aggregation of `from` sends its update of `level` to the
\* peer `to`, which receives it.
Send(from, to, level) ==
    /\ nodes[from].result = {}
    /\ scenario_active(from, nodes[from].store, level)
    /\ to \in scenario_identities_on(from, level)
    /\ nodes' = [nodes EXCEPT ![to] =
           scenario_receive(to, @,
               LevelUpdate(scenario_combined(from, nodes[from].store, level - 1),
                           {{from}}, level, from))]
    /\ UNCHANGED <<store, last, readerVars, driver, taskVars, netVars>>

\* The aggregation of `node` holds every validator: it emits the final
\* update and resolves with it.
Terminate(node) ==
    /\ nodes[node].result = {}
    /\ scenario_combined(node, nodes[node].store, ScenarioLevels - 1)
           = ScenarioNodes
    /\ nodes' = [nodes EXCEPT ![node] =
           [store |-> put_best(@.store, ScenarioLevels, ScenarioNodes),
            result |-> {ScenarioNodes}]]
    /\ UNCHANGED <<store, last, readerVars, driver, taskVars, netVars>>

\* The final update emitted by `from` reaches `to`.
ReceiveFinal(from, to) ==
    /\ from # to
    /\ nodes[from].result # {}
    /\ nodes[to].result = {}
    /\ nodes' = [nodes EXCEPT ![to] =
           scenario_receive(to, @,
               LevelUpdate(CHOOSE r \in nodes[from].result : TRUE, {},
                           ScenarioLevels, from))]
    /\ UNCHANGED <<store, last, readerVars, driver, taskVars, netVars>>

NextScenario ==
    \/ \E from, to \in ScenarioNodes :
           \E l \in 1 .. (ScenarioLevels - 1) : Send(from, to, l)
    \/ \E n \in ScenarioNodes : Terminate(n)
    \/ \E from, to \in ScenarioNodes : ReceiveFinal(from, to)

SpecScenario ==
    /\ Init
    /\ [][NextScenario]_vars
    /\ \A from, to \in ScenarioNodes :
           \A l \in 1 .. (ScenarioLevels - 1) : WF_vars(Send(from, to, l))
    /\ \A n \in ScenarioNodes : WF_vars(Terminate(n))
    /\ \A from, to \in ScenarioNodes : WF_vars(ReceiveFinal(from, to))

(***************************************************************************)
(* The score as a function of the level and of the totals: the levels      *)
(* 1..MaxScoreLevel of a binomial partitioner, level l holding 2^(l-1)     *)
(* identities, and every (new_total, added_sigs, combined_sigs) with       *)
(* new_total signers at most, at least one of them the contribution's own. *)
(***************************************************************************)

\* Bound: the levels below the final one.
MaxScoreLevel == 6

ScoreLevels == 1 .. MaxScoreLevel

\* level_size(level) of a partitioner with more than 2^level identities.
ScoreLevelSize(level) == Pow2(level - 1)

ScoreTotals(level) ==
    { t \in [new_total : 1 .. ScoreLevelSize(level),
             added_sigs : 0 .. ScoreLevelSize(level),
             combined_sigs : 0 .. (ScoreLevelSize(level) - 1)] :
        /\ t.added_sigs <= t.new_total
        /\ t.combined_sigs < t.new_total }

\* The totals of a contribution that completes the level after merging
\* combined_sigs individuals.
CompletingTotals(level, combined_sigs) ==
    [new_total |-> ScoreLevelSize(level),
     added_sigs |-> ScoreLevelSize(level) - combined_sigs,
     combined_sigs |-> combined_sigs]

\* The score computation at the end of evaluate, for a single signer.
Score(level, t) ==
    /\ last = Idle
    /\ last' = [op |-> "score", level |-> level,
                level_identity_count |-> ScoreLevelSize(level), totals |-> t,
                score |-> compute_score({OwnId}, {OwnId}, level,
                                        ScoreLevelSize(level), t)]
    /\ UNCHANGED <<store, readerVars, driverVars, taskVars, netVars>>

NextScore ==
    \/ /\ last = Idle
       /\ \E l \in ScoreLevels : \E t \in ScoreTotals(l) : Score(l, t)
    \/ Return

SpecScore == Init /\ [][NextScore]_vars

(***************************************************************************)
(* evaluate next to the writers of the store.  The store is behind a       *)
(* readers-writer lock: evaluate takes the read guard once and makes its   *)
(* three reads under it; put_best and put_individual take the write lock.  *)
(***************************************************************************)

\* Faulty variant of read_guard_held: the guard is a temporary of each read.
read_guard_released(pc) == FALSE

\* The guard `store` of evaluator.rs:127 is bound for the rest of the
\* function: it is held at every later point of the call.
read_guard_held(pc) == TRUE

\* The write lock can be taken: no read guard is out.
write_lock_free == worker.pc = "idle" \/ ~read_guard_held(worker.pc)

\* evaluate is called: the final level returns at once (evaluator.rs:123);
\* below it the read guard is taken (127).
EvaluateEnter(contribution, level) ==
    /\ last = Idle
    /\ worker.pc = "idle"
    /\ IF is_final_level(level)
       THEN /\ last' = [op |-> "evaluate", contribution |-> contribution,
                        level |-> level,
                        score |-> evaluate_over(store, store, store,
                                                contribution, level),
                        held |-> store]
            /\ worker' = worker
       ELSE /\ worker' = [pc |-> "individual_signature",
                          contribution |-> contribution, level |-> level,
                          held |-> store, signatures |-> store,
                          bests |-> store, verified |-> store]
            /\ last' = last
    /\ UNCHANGED <<store, readerVars, driverVars, netVars>>

\* store.individual_signature(level, identity) (evaluator.rs:138).
ReadIndividualSignature ==
    /\ worker.pc = "individual_signature"
    /\ worker' = [worker EXCEPT !.signatures = store, !.pc = "best"]
    /\ UNCHANGED <<store, last, readerVars, driverVars, netVars>>

\* store.best(level) (evaluator.rs:147).
ReadBest ==
    /\ worker.pc = "best"
    /\ worker' = [worker EXCEPT !.bests = store, !.pc = "individual_verified"]
    /\ UNCHANGED <<store, last, readerVars, driverVars, netVars>>

\* store.individual_verified(level) (evaluator.rs:168).
ReadIndividualVerified ==
    /\ worker.pc = "individual_verified"
    /\ worker' = [worker EXCEPT !.verified = store, !.pc = "score"]
    /\ UNCHANGED <<store, last, readerVars, driverVars, netVars>>

\* evaluate returns the score of what it read and drops the guard.
EvaluateReturn ==
    /\ worker.pc = "score"
    /\ last' = [op |-> "evaluate", contribution |-> worker.contribution,
                level |-> worker.level,
                score |-> evaluate_over(worker.signatures, worker.bests,
                                        worker.verified, worker.contribution,
                                        worker.level),
                held |-> worker.held]
    /\ worker' = Worker_idle
    /\ UNCHANGED <<store, readerVars, driverVars, netVars>>

\* A writer task merges a contribution: put_best under the write lock.
WriterPutBest(level, contributors) ==
    /\ write_lock_free
    /\ store' = put_best(store, level, contributors)
    /\ UNCHANGED <<last, readerVars, driverVars, taskVars, netVars>>

\* A writer task stores an individual: put_individual under the write lock.
WriterPutIndividual(level, contributors) ==
    /\ write_lock_free
    /\ store' = put_individual(store, level, contributors)
    /\ UNCHANGED <<last, readerVars, driverVars, taskVars, netVars>>

\* The levels the writers merge into.
WriterLevels == 1 .. (levels - 2)

NextConcurrent ==
    \/ /\ last = Idle
       /\ \E l \in StoreLevels :
              \E c \in SUBSET EvalSlots(l) : EvaluateEnter(c, l)
    \/ ReadIndividualSignature
    \/ ReadBest
    \/ ReadIndividualVerified
    \/ EvaluateReturn
    \/ \E l \in WriterLevels : \E c \in StoreProposals(l) : WriterPutBest(l, c)
    \/ \E l \in WriterLevels :
           \E c \in StoreIndividuals(l) : WriterPutIndividual(l, c)
    \/ Return

SpecConcurrent == Init /\ [][NextConcurrent]_vars

(***************************************************************************)
(* The networks of one hub under any sequence of dial, disconnect and      *)
(* shutdown, and the calls that need a connection.                         *)
(***************************************************************************)

\* A call dial_address(address) or dial_peer(peer_id) on the network at self.
Dial(self, address) ==
    /\ last = Idle
    /\ LET d == dial_mock_address(hub, peers, self, address)
       IN  /\ hub' = d.hub
           /\ peers' = d.peers
           /\ last' = [op |-> "dial", self |-> self, address |-> address,
                       result |-> d.result]
    /\ UNCHANGED <<futures, coreVars>>

\* A call disconnect() on the network at self.
Disconnect(self, done) ==
    /\ last = Idle
    /\ LET d == disconnect(hub, peers, self, done)
       IN  /\ hub' = d.hub
           /\ peers' = d.peers
           /\ last' = [op |-> "disconnect", self |-> self,
                       panicked |-> d.panicked]
    /\ UNCHANGED <<futures, coreVars>>

\* A call shutdown() on the network at self.
Shutdown(self, done) ==
    /\ last = Idle
    /\ LET d == shutdown(hub, peers, self, done)
       IN  /\ hub' = d.hub
           /\ peers' = d.peers
           /\ last' = [op |-> "shutdown", self |-> self,
                       panicked |-> d.panicked]
    /\ UNCHANGED <<futures, coreVars>>

\* A call publish, unsubscribe, dht_get or dht_put on the network at self.
Gated(self, call, result) ==
    /\ last = Idle
    /\ last' = [op |-> call, self |-> self,
                result |-> IF gate(hub, self) # {}
                           THEN CHOOSE e \in gate(hub, self) : TRUE
                           ELSE result]
    /\ UNCHANGED <<netVars, coreVars>>

NextNetwork ==
    \/ /\ last = Idle
       /\ \E self, address \in Addresses : Dial(self, address)
    \/ /\ last = Idle
       /\ \E self \in Addresses :
              \E done \in DisconnectOrders(hub, peers, self) :
                  Disconnect(self, done)
    \/ /\ last = Idle
       /\ \E self \in Addresses :
              \E done \in DisconnectOrders(hub, peers, self) :
                  Shutdown(self, done)
    \/ /\ last = Idle
       /\ \E self \in Addresses : \E call \in GatedCalls :
              \E result \in GatedResults(call) : Gated(self, call, result)
    \/ Return

SpecNetwork == Init /\ [][NextNetwork]_vars

(***************************************************************************)
(* Requests between the networks of one hub: networks dial and disconnect, *)
(* start and drop their request streams, send requests and respond to any  *)
(* request id; a response future resolves when a response has arrived,     *)
(* when its sender is gone, or when REQUEST_TIMEOUT has elapsed.           *)
(***************************************************************************)

\* A call receive_requests() on the network at self (network.rs:472-499).
ReceiveRequests(self) ==
    /\ last = Idle
    /\ hub.request_senders[self] # "open"
    /\ hub' = [hub EXCEPT !.request_senders[self] = "open"]
    /\ UNCHANGED <<last, peers, futures, coreVars>>

\* The network at self drops the stream receive_requests returned.
DropRequests(self) ==
    /\ last = Idle
    /\ hub.request_senders[self] = "open"
    /\ hub' = [hub EXCEPT !.request_senders[self] = "closed"]
    /\ UNCHANGED <<last, peers, futures, coreVars>>

\* A call request(request, peer_id) on the network at self.
Request(self, peer_id) ==
    /\ last = Idle
    /\ hub.next_request_id < MaxRequests
    /\ LET r == request(hub, peers, futures, self, peer_id)
       IN  /\ hub' = r.hub
           /\ futures' = r.futures
           /\ last' = [op |-> "request", self |-> self, peer_id |-> peer_id,
                       result |-> r.result]
    /\ UNCHANGED <<peers, coreVars>>

\* A call respond(request_id, response) on the network at self.
Respond(self, request_id, decodes) ==
    /\ last = Idle
    /\ LET r == respond(hub, peers, futures, self, request_id, decodes)
       IN  /\ hub' = r.hub
           /\ futures' = r.futures
           /\ last' = [op |-> "respond", self |-> self,
                       request_id |-> request_id, result |-> r.result]
    /\ UNCHANGED <<peers, coreVars>>

\* The response future of the request is polled with a response in its
\* channel or with the sender gone.
Resolve(request_id) ==
    /\ futures[request_id].state \in {"data", "garbage", "tx_dropped"}
    /\ futures' = [futures EXCEPT ![request_id].state = resolved_with(@)]
    /\ UNCHANGED <<last, hub, peers, coreVars>>

\* REQUEST_TIMEOUT elapses with nothing in the channel: the timeout future
\* completes and drops the receiver.
TimerFires(request_id) ==
    /\ futures[request_id].state = "waiting"
    /\ futures' = [futures EXCEPT ![request_id].state = "elapsed"]
    /\ UNCHANGED <<last, hub, peers, coreVars>>

\* The closure of the timed-out future takes the hub's lock and runs.
TimedOut(request_id) ==
    /\ futures[request_id].state = "elapsed"
    /\ LET t == timed_out(hub, futures, request_id)
       IN  /\ hub' = t.hub
           /\ futures' = t.futures
    /\ UNCHANGED <<last, peers, coreVars>>

\* The steps of the response futures.
FutureSteps(request_id) ==
    \/ Resolve(request_id)
    \/ TimerFires(request_id)
    \/ TimedOut(request_id)

NextRequests ==
    \/ /\ last = Idle
       /\ \E self, address \in Addresses : Dial(self, address)
    \/ /\ last = Idle
       /\ \E self \in Addresses :
              \E done \in DisconnectOrders(hub, peers, self) :
                  Disconnect(self, done)
    \/ \E self \in Addresses : ReceiveRequests(self)
    \/ \E self \in Addresses : DropRequests(self)
    \/ /\ last = Idle
       /\ \E self, peer_id \in Addresses : Request(self, peer_id)
    \/ /\ last = Idle
       /\ \E self \in Addresses : \E request_id \in RespondIds :
              \E decodes \in BOOLEAN : Respond(self, request_id, decodes)
    \/ \E request_id \in RequestIds : FutureSteps(request_id)
    \/ Return

\* Requests and responses; the response futures are polled and the timers
\* run.
SpecRequests ==
    /\ Init
    /\ [][NextRequests]_vars
    /\ \A request_id \in RequestIds : WF_vars(FutureSteps(request_id))

(***************************************************************************)
(* evaluate as a function of the level's state and the contribution: the   *)
(* store starts with one level below the final one written by put_best and *)
(* put_individual calls, and contributions are scored against it.          *)
(***************************************************************************)

\* The Option<best> of a written level: none, or one of the proposals.
WrittenBests(level) == {{}} \cup { {b} : b \in StoreProposals(level) }

\* The individuals of a written level: of the level's identities and of one
\* validator outside the level.
WrittenIndividuals(level) == SUBSET (identities_on(level) \cup {OwnId})

\* The stores with one level written.
WrittenStores ==
    UNION { { [EmptyStore EXCEPT ![l] = [best |-> b, individuals |-> i]] :
                  b \in WrittenBests(l), i \in WrittenIndividuals(l) } :
            l \in 1 .. (levels - 1) }

InitEvaluate ==
    /\ store \in WrittenStores
    /\ last = Idle
    /\ sent = <<>>
    /\ inner = Cursor_new(<<>>)
    /\ reader = MessageReader_new
    /\ yielded = <<>>
    /\ driver = Aggregation_new
    /\ nodes = Scenario_new
    /\ worker = Worker_idle
    /\ hub = MockHub_new
    /\ peers = [a \in Addresses |-> {}]
    /\ futures = [id \in RespondIds |-> NoFuture]

NextEvaluate ==
    \/ /\ last = Idle
       /\ \E l \in StoreLevels : \E c \in SUBSET EvalSlots(l) : Evaluate(c, l)
    \/ Return

\* evaluate over the written stores.
SpecEvaluate == InitEvaluate /\ [][NextEvaluate]_vars

(***************************************************************************)
(* What the properties read off a state.                                   *)
(***************************************************************************)

Evaluated == last.op = "evaluate"

Verified == last.op = "verify"

\* The identity of the contribution of the evaluate call held in last.
EvalIdentity == signers_identity(last.contribution)

HasBest(level) == best(store, level) # {}

\* The contributors of best(level), as evaluate reads them.
BestContributors(level) ==
    signers_identity(CHOOSE b \in best(store, level) : TRUE)

\* |best(level).contributors| = level_size(level), for a level below the final.
Complete(level) ==
    /\ HasBest(level)
    /\ Cardinality(BestContributors(level)) = level_size(level)

LevelsBelowFinal == 1 .. (levels - 1)

\* The identity of the aggregate of the update of the verify call held in last.
VerifiedContributors == signers_identity(last.msg.aggregate)

\* The LevelUpdate invariant of the update held in last: an individual that is
\* present has exactly one signer, the origin.
IndividualIsOrigin ==
    \A i \in last.msg.individual : signers_identity(i) = {last.msg.origin}

(***************************************************************************)
(* C1..C10                                                                 *)
(***************************************************************************)

\* C1 as claimed: at every level, evaluate returns 0 for a contribution whose
\* identity is a subset of the contributors of the level's best.
C1_SubsetOfBestScoresZeroAtEveryLevel ==
    (Evaluated /\ HasBest(last.level)
        /\ EvalIdentity \subseteq BestContributors(last.level))
    => last.score = 0

\* C1, amended: at every level below the final one, evaluate returns 0 for a
\* contribution whose identity is a subset of the contributors of the level's
\* best.
C1_SubsetOfBestScoresZero ==
    (Evaluated /\ last.level < levels /\ HasBest(last.level)
        /\ EvalIdentity \subseteq BestContributors(last.level))
    => last.score = 0

\* C1's case: a non-empty identity inside an incomplete best, its individual
\* not stored, so that only the superset test returns 0.
C1_Witness ==
    /\ Evaluated /\ last.level < levels /\ HasBest(last.level)
    /\ EvalIdentity # {}
    /\ EvalIdentity \subseteq BestContributors(last.level)
    /\ ~Complete(last.level)
    /\ ~already_known(store, last.level, EvalIdentity)
    /\ last.score = 0

\* C2: a complete level stays complete in every step, whatever is stored, and
\* every evaluate call at a complete level returns 0.
C2_CompleteLevelIsSticky ==
    [][\A l \in LevelsBelowFinal :
          Complete(l) =>
              /\ Complete(l)'
              /\ (Evaluated' /\ last'.level = l) => last'.score = 0]_vars

\* C2's case: a contribution that brings identities the complete level's best
\* lacks is scored at that level while another level holds a best.
C2_Witness ==
    /\ Evaluated /\ last.level < levels /\ Complete(last.level)
    /\ ~(EvalIdentity \subseteq BestContributors(last.level))
    /\ \E l \in StoreLevels : l # last.level /\ HasBest(l)
    /\ last.score = 0

\* C3 as claimed: a single signer of the level whose individual is not stored
\* at the level scores above 0.
C3_IndividualsAlwaysKept ==
    (Evaluated /\ last.level < levels
        /\ Cardinality(EvalIdentity) = 1
        /\ EvalIdentity \subseteq identities_on(last.level)
        /\ ~individual_signature_is_some(store, last.level, EvalIdentity))
    => last.score > 0

\* C3, amended: a single signer of the level whose individual is not stored at
\* the level scores above 0 if the level has no best or its best is incomplete
\* and does not hold the signer.
C3_IndividualsKeptUnlessInBest ==
    (Evaluated /\ last.level < levels
        /\ Cardinality(EvalIdentity) = 1
        /\ EvalIdentity \subseteq identities_on(last.level)
        /\ ~individual_signature_is_some(store, last.level, EvalIdentity)
        /\ (HasBest(last.level) =>
               /\ ~Complete(last.level)
               /\ ~(EvalIdentity \subseteq BestContributors(last.level))))
    => last.score > 0

\* C3's case: a new individual of the level next to a best that lacks it.
C3_Witness ==
    /\ Evaluated /\ last.level < levels
    /\ Cardinality(EvalIdentity) = 1
    /\ EvalIdentity \subseteq identities_on(last.level)
    /\ ~individual_signature_is_some(store, last.level, EvalIdentity)
    /\ HasBest(last.level)
    /\ ~(EvalIdentity \subseteq BestContributors(last.level))
    /\ last.score > 0

\* C4: an update verify accepts is a full aggregate at the final level, or its
\* aggregate's identity and its origin lie in identities_on(level).
C4_AcceptedUpdateIsWellFormed ==
    (Verified /\ last.verdict = Ok)
    => \/ /\ last.msg.level = levels
          /\ Cardinality(VerifiedContributors) = size
       \/ /\ VerifiedContributors \subseteq identities_on(last.msg.level)
          /\ last.msg.origin \in identities_on(last.msg.level)

\* C4's case: an accepted update below the final level whose aggregate carries
\* a slot the registry drops and whose individual is present.
C4_Witness ==
    /\ Verified /\ last.verdict = Ok
    /\ last.msg.level < levels
    /\ UnknownSlot \in last.msg.aggregate
    /\ VerifiedContributors # {}
    /\ last.msg.individual # {}

\* C5: verify returns InvalidLevel{level, num_levels} exactly for the updates
\* whose level is 0 or above levels.
C5_InvalidLevelIffOutOfBounds ==
    Verified =>
        /\ last.verdict.kind = "InvalidLevel"
               <=> (last.msg.level = 0 \/ last.msg.level > levels)
        /\ last.verdict.kind = "InvalidLevel"
               => last.verdict = InvalidLevel(last.msg.level, levels)

\* C5's case: an update above the final level that is otherwise a valid full
\* aggregate.
C5_Witness ==
    /\ Verified /\ last.msg.level > levels
    /\ VerifiedContributors = ValidatorIds
    /\ last.verdict.kind = "InvalidLevel"

\* C6: at the final level verify returns Ok iff the aggregate's identity has
\* size() signers, and otherwise InvalidFullAggregate with the actual and the
\* expected count.
C6_FullAggregateIffAllSigners ==
    (Verified /\ last.msg.level = levels)
    => /\ last.verdict = Ok <=> Cardinality(VerifiedContributors) = size
       /\ last.verdict # Ok
              => last.verdict =
                     InvalidFullAggregate(Cardinality(VerifiedContributors), size)

\* C6's case: a final-level aggregate of size() slots, one of them unknown to
\* the registry, is rejected.
C6_Witness ==
    /\ Verified /\ last.msg.level = levels
    /\ Cardinality(last.msg.aggregate) = size
    /\ last.verdict.kind = "InvalidFullAggregate"

\* C7 as claimed: every update verify accepts, at any level 1..levels, has no
\* individual or one whose only signer is the origin.
C7_AcceptedIndividualIsOriginAtEveryLevel ==
    (Verified /\ last.verdict = Ok) => IndividualIsOrigin

\* C7, amended: every update verify accepts at a level below the final one has
\* no individual or one whose only signer is the origin.
C7_AcceptedIndividualIsOrigin ==
    (Verified /\ last.verdict = Ok /\ last.msg.level < levels)
    => IndividualIsOrigin

\* C7's case: an accepted update below the final level that carries an
\* individual.
C7_Witness ==
    /\ Verified /\ last.verdict = Ok
    /\ last.msg.level < levels
    /\ last.msg.individual # {}
    /\ last.msg.aggregate # {}

\* A single-signer contribution of known slots, scored at level 1.
SingleSignerAtLevel1 ==
    /\ Evaluated /\ last.level = 1
    /\ Cardinality(last.contribution) = 1
    /\ last.contribution \subseteq ValidatorIds

\* C8 as claimed: with nothing stored at level 1 the single signer scores its
\* signature weight, and once its individual is stored it scores 0.
C8_FirstScoreIsSignatureWeight ==
    SingleSignerAtLevel1 =>
        /\ store[1] = EmptyLevel
               => last.score = signature_weight_or_0(last.contribution)
        /\ individual_signature_is_some(store, 1, last.contribution)
               => last.score = 0

\* C8, amended: with nothing stored at level 1 the single signer scores the
\* completes-level score of level 1, COMPLETES_LEVEL_BASE_SCORE minus one level
\* penalty, and once its individual is stored it scores 0.
C8_DuplicateSuppression ==
    SingleSignerAtLevel1 =>
        /\ store[1] = EmptyLevel
               => last.score = COMPLETES_LEVEL_BASE_SCORE
                                   - COMPLETES_LEVEL_LEVEL_PENALTY
        /\ individual_signature_is_some(store, 1, last.contribution)
               => last.score = 0

\* C8's case: the second evaluation, the individual stored at level 1.
C8_Witness ==
    /\ SingleSignerAtLevel1
    /\ individual_signature_is_some(store, 1, last.contribution)
    /\ last.score = 0

\* C9: evaluate returns usize::MAX at the final level and less below it.
C9_MaxScoreIffFinalLevel ==
    Evaluated =>
        /\ last.level = levels => last.score = USIZE_MAX
        /\ last.level < levels => last.score < USIZE_MAX

\* C9's case: a contribution inside the final level's best scores usize::MAX.
C9_Witness ==
    /\ Evaluated /\ last.level = levels
    /\ HasBest(levels)
    /\ EvalIdentity \subseteq BestContributors(levels)
    /\ last.score = USIZE_MAX

\* The incoming identity overlaps the level's best without being inside it.
Overlaps ==
    /\ Evaluated /\ HasBest(last.level)
    /\ EvalIdentity \cap BestContributors(last.level) # {}
    /\ ~(EvalIdentity \subseteq BestContributors(last.level))

\* C10: an overlapping contribution scores above 0 only if its identity with
\* the verified individuals has more signers than the best.
C10_OverlapScoresOnlyIfGrows ==
    (Overlaps /\ last.score > 0)
    => Cardinality(EvalIdentity \cup individual_verified(store, last.level))
           > Cardinality(BestContributors(last.level))

\* C10's case: an overlapping contribution that does not grow the best is
\* scored 0.
C10_Witness ==
    /\ Overlaps /\ ~Complete(last.level)
    /\ Cardinality(EvalIdentity \cup individual_verified(store, last.level))
           <= Cardinality(BestContributors(last.level))
    /\ last.score = 0

(***************************************************************************)
(* The message codec: what a call of poll_next did.                        *)
(***************************************************************************)

\* The first n items a MessageReader in the state self yields over the bytes
\* of wire after pos when every read of the inner reader delivers all the
\* bytes asked for, or the rest of the stream and then its end.
RECURSIVE WholeReads(_, _, _, _)
WholeReads(self, wire, pos, n) ==
    IF n = 0 THEN <<>>
    ELSE LET need == wanted_len(self) - Len(self.buffer)
             remaining == Len(wire) - pos
             count == IF need <= 0 THEN 0
                      ELSE IF remaining >= need THEN need ELSE remaining
             outcome == IF need <= 0 \/ remaining >= need
                        THEN "data" ELSE "eof"
             rd == read_to_buf(self.buffer, wanted_len(self),
                               SubSeq(wire, pos + 1, pos + count), outcome)
             res == poll_next(self, rd)
         IN  IF res.item = Pending
             THEN WholeReads(res.reader, wire, pos + count, n)
             ELSE <<res.item>>
                      \o WholeReads(res.reader, wire, pos + count, n - 1)

Polled == last.op = "poll_next"

\* The stream holds whole frames of messages written by put_message.
WellFormedStream ==
    /\ \A i \in 1 .. Len(sent) : sent[i].kind = "message"
    /\ inner.wire = Wire(sent)

\* The i-th item a reader of a well-formed stream is to yield.
ExpectedItem(i) ==
    IF i <= Len(sent) THEN SomeOk(sent[i].message) ELSE ReadyNone

\* C11: when the stream is the frames of the messages m1..mk, each written
\* as the header with its serialized size and then its serialization, and
\* the inner reader returns no read error, the items the reader yields are
\* Ok(m1), ..., Ok(mk) in order and after them None, however the inner
\* reader splits the bytes into reads and Pending results.
C11_FrameRoundTrip ==
    (WellFormedStream /\ inner.errors = 0)
        => \A i \in 1 .. Len(yielded) : yielded[i] = ExpectedItem(i)

\* Two different messages were read back and the end of the stream after
\* them.
C11_Witness ==
    /\ WellFormedStream
    /\ inner.errors = 0
    /\ Len(sent) >= 2
    /\ sent[1].message # sent[2].message
    /\ Len(yielded) = Len(sent) + 1
    /\ \A i \in 1 .. Len(yielded) : yielded[i] = ExpectedItem(i)

\* The call of poll_next met the end of the stream: read_to_buf returned
\* Ok(false).
PolledEof == Polled /\ last.read = ReadyOk(FALSE)

\* C12: a poll_next that meets the end of the stream returns None when the
\* state is Head and no byte of a header is buffered, and the error
\* UnexpectedEnd otherwise: with 1..Header::SIZE-1 bytes of a header
\* buffered, or in state Data with fewer than header.size payload bytes
\* buffered, none included.  It returns no message.
C12_EofIsNoneOrUnexpectedEnd ==
    PolledEof =>
        /\ (last.state = ReaderState_Head /\ last.buffer = <<>>)
               => last.item = ReadyNone
        /\ (last.state = ReaderState_Head /\ last.buffer # <<>>)
               => (/\ Len(last.buffer) < Header_SIZE
                   /\ last.item = SomeErr(unexpected_end))
        /\ (last.state # ReaderState_Head)
               => (/\ Len(last.buffer) < last.state.header.size
                   /\ last.item = SomeErr(unexpected_end))

\* The stream ended inside a header.
C12_Witness ==
    /\ PolledEof
    /\ last.state = ReaderState_Head
    /\ Len(last.buffer) >= 1
    /\ last.item = SomeErr(unexpected_end)

\* The stream ended after a header and before the first byte of its payload.
C12_WitnessData ==
    /\ PolledEof
    /\ last.state # ReaderState_Head
    /\ last.buffer = <<>>
    /\ last.item = SomeErr(unexpected_end)

\* The stream ended after the last frame.
C12_WitnessNone ==
    /\ PolledEof
    /\ last.state = ReaderState_Head
    /\ Len(yielded) >= 2
    /\ last.item = ReadyNone

\* The call of poll_next returned the error of a deserializer.
PolledDecodeError == Polled /\ last.item = SomeErr(decode_error)

\* The call of poll_next returned a message.
PolledMessage == Polled /\ \E m \in Messages : last.item = SomeOk(m)

\* C13: a poll_next whose payload does not decode returns the decode error,
\* drops the frame and leaves the reader in state Head with an empty buffer,
\* so that the next poll reads the header of the next frame.
C13_PayloadErrorReturnsToHead ==
    (PolledDecodeError /\ last.state # ReaderState_Head)
        => (reader.state = ReaderState_Head /\ reader.buffer = <<>>)

\* C14: a poll_next whose header does not decode returns the decode error and
\* leaves the reader in state Head; the reader goes from Head to Data only
\* with the header that its Header::SIZE buffered bytes decode to.
C14_HeaderErrorStaysInHead ==
    /\ (PolledDecodeError /\ last.state = ReaderState_Head)
           => reader.state = ReaderState_Head
    /\ (Polled /\ last.state = ReaderState_Head
               /\ reader.state # ReaderState_Head)
           => (/\ Len(last.buffer) = Header_SIZE
               /\ Header_deserialize_from_vec(last.buffer).ok
               /\ reader.state = ReaderState_Data(
                      Header_deserialize_from_vec(last.buffer).header))

\* A header did not decode.
C14_Witness ==
    /\ PolledDecodeError
    /\ last.state = ReaderState_Head
    /\ reader.state = ReaderState_Head

\* C15: a message that poll_next returns was decoded from header.size bytes,
\* which are the header.size bytes of the stream that follow the frame's
\* header and have all been read from the stream.
C15_NoPartialPayload ==
    PolledMessage =>
        LET n == last.state.header.size
        IN  /\ Len(last.buffer) = n
            /\ inner.pos >= n + Header_SIZE
            /\ last.buffer = SubSeq(inner.wire, inner.pos - n + 1, inner.pos)
            /\ Header_serialize(last.state.header)
                   = SubSeq(inner.wire, inner.pos - n - Header_SIZE + 1,
                            inner.pos - n)

(***************************************************************************)
(* The contribution store: what a write did.                               *)
(***************************************************************************)

\* The step is a call put_best(level, c).
PutBestStep(level) ==
    /\ last = Idle
    /\ last'.op = "put_best"
    /\ last'.level = level

\* c is a strict superset of the contributors of the best of the level.
StrictlyExtendsBest(level, contributors) ==
    \E b \in best(store, level) : b \subseteq contributors /\ b # contributors

\* C16: in any sequence of put_best calls on a level, the best changes only
\* in a put_best(level, c) made when there is no best or when c is a strict
\* superset of the best's contributors, and then becomes c, so the stored
\* contributor sets grow strictly under inclusion; every other proposal, and
\* every other operation, leaves best(level) as it was.
C16_BestGrowsStrictly ==
    [][\A l \in LevelsBelowFinal :
           /\ (best(store', l) # best(store, l))
                  => /\ PutBestStep(l)
                     /\ best(store', l) = {last'.contributors}
                     /\ (~HasBest(l) \/ StrictlyExtendsBest(l, last'.contributors))
           /\ (PutBestStep(l) /\ HasBest(l)
                   /\ ~StrictlyExtendsBest(l, last'.contributors))
                  => best(store', l) = best(store, l)]_vars

\* A put_best replaced a best by a strict superset of it.
C16_Witness ==
    /\ last.op = "put_best"
    /\ last.before # {}
    /\ last.before # best(store, last.level)
    /\ best(store, last.level) = {last.contributors}

\* A put_best of a proposal that does not extend the best left it as it was.
C16_WitnessRejected ==
    /\ last.op = "put_best"
    /\ last.before # {}
    /\ last.before = best(store, last.level)
    /\ last.before # {last.contributors}

ProposesOutsideLevel(level) ==
    /\ PutBestStep(level)
    /\ ~(last'.contributors \subseteq identities_on(level))

C18_BestWithinLevel ==
    \A l \in LevelsBelowFinal :
        HasBest(l) => BestContributors(l) \subseteq identities_on(l)

\* Two levels hold a best of more than one contributor, one of them short of
\* the level.
C18_Witness ==
    \E l, m \in LevelsBelowFinal :
        /\ l # m
        /\ HasBest(l)
        /\ HasBest(m)
        /\ Cardinality(BestContributors(l)) >= 2
        /\ Cardinality(BestContributors(m)) >= 2
        /\ BestContributors(m) # identities_on(m)

(***************************************************************************)
(* The aggregation driver: level activation.                               *)
(***************************************************************************)

\* The level is active.
Active(level) == level <= driver.current_level

\* C20: level 1 is active from the start; a level l+1 becomes active only in
\* a step taken when level l is active and is complete or its timeout has
\* fired; and with fair timers the levels 1..L-1 are all active in the end,
\* whether or not an update is ever received.
C20_LevelActivation ==
    /\ Active(1) /\ ~Active(2)
    /\ [][\A l \in 1 .. (levels - 2) :
              (~Active(l + 1) /\ Active(l + 1)')
                  => /\ Active(l)
                     /\ (Complete(l) \/ l \in driver.fired)]_vars
    /\ <>(\A l \in 1 .. (levels - 1) : Active(l))

\* Every level below the final one is active and no update was merged.
C20_Witness ==
    /\ \A l \in 1 .. (levels - 1) : Active(l)
    /\ store = EmptyStore
    /\ levels - 1 >= 3

\* Level 2 was opened by the completion of level 1, before its timeout.
C20_WitnessComplete ==
    /\ Active(2)
    /\ Complete(1)
    /\ driver.fired = {}

(***************************************************************************)
(* The network of four validators.                                         *)
(***************************************************************************)

\* The aggregation of the validator has resolved with every validator's
\* contribution.
Resolved(node) == nodes[node].result = {ScenarioNodes}

VerifiedBelowFinal ==
    /\ Verified
    /\ 1 <= last.msg.level /\ last.msg.level < levels

\* C25: below the final level verify reports the first failing check in the
\* order origin, individual, contributors: InvalidOrigin for an origin outside
\* identities_on(level); else InvalidIndividualContribution for an individual
\* whose signers are not exactly the origin; else InvalidContributors for an
\* aggregate that is no subset of identities_on(level); else Ok.
C25_FirstFailingCheckIsReported ==
    VerifiedBelowFinal =>
        last.verdict.kind =
            IF last.msg.origin \notin identities_on(last.msg.level)
            THEN "InvalidOrigin"
            ELSE IF ~IndividualIsOrigin
            THEN "InvalidIndividualContribution"
            ELSE IF ~(VerifiedContributors \subseteq identities_on(last.msg.level))
            THEN "InvalidContributors"
            ELSE "Ok"

\* C25's case: the individual and the aggregate both fail their checks and the
\* individual's failure is the one reported.
C25_Witness ==
    /\ VerifiedBelowFinal
    /\ last.msg.origin \in identities_on(last.msg.level)
    /\ ~IndividualIsOrigin
    /\ ~(VerifiedContributors \subseteq identities_on(last.msg.level))
    /\ last.verdict.kind = "InvalidIndividualContribution"

\* The evaluate call held in last took the branch without a best: a level
\* below the final one, a non-empty identity that is not a known individual.
NoBestBranch ==
    /\ Evaluated /\ last.level < levels
    /\ ~HasBest(last.level)
    /\ EvalIdentity # {}
    /\ ~already_known(store, last.level, EvalIdentity)

\* with_individuals of the evaluate call held in last.
WithIndividuals ==
    combine(EvalIdentity, individual_verified(store, last.level))

\* C28: a level that holds verified individuals holds a best; so in the
\* branch of evaluate without a best with_individuals is the identity,
\* combined_sigs is 0 and the warning's condition is false.
C28_IndividualsImplyBest ==
    /\ \A l \in StoreLevels :
           individual_verified(store, l) # {} => HasBest(l)
    /\ NoBestBranch =>
           /\ WithIndividuals = EvalIdentity
           /\ Cardinality(WithIndividuals) = Cardinality(EvalIdentity)
           /\ totals(best(store, last.level), EvalIdentity,
                     WithIndividuals).combined_sigs = 0

\* C28's case: a contribution is scored at a level without a best while
\* another level holds verified individuals.
C28_Witness ==
    /\ NoBestBranch
    /\ \E l \in StoreLevels : individual_verified(store, l) # {}
    /\ last.score > 0

Scored == last.op = "score"

\* The score held in last is that of a contribution that completes its level.
ScoredCompleting ==
    /\ Scored /\ last.totals.added_sigs > 0
    /\ last.totals.new_total = last.level_identity_count

\* The score held in last is that of a contribution that improves its level
\* without completing it.
ScoredImproving ==
    /\ Scored /\ last.totals.added_sigs > 0
    /\ last.totals.new_total # last.level_identity_count

\* The score of a contribution that completes the level after merging
\* combined_sigs individuals.
CompletingScore(level, combined_sigs) ==
    compute_score({OwnId}, {OwnId}, level, ScoreLevelSize(level),
                  CompletingTotals(level, combined_sigs))

\* The scores of the contributions that complete a level.
CompletingScores ==
    UNION { { CompletingScore(l, c) : c \in 0 .. (ScoreLevelSize(l) - 1) } :
            l \in ScoreLevels }

\* C26: every score of a contribution that completes its level is above
\* every score of one that only improves its level, every improving score
\* is above 0, and no subtraction of the score underflows.
C26_ScoreBandsAreOrdered ==
    /\ Scored => ~score_underflows(last.level, last.level_identity_count,
                                   last.totals)
    /\ ScoredImproving =>
           /\ last.score > 0
           /\ \A completing \in CompletingScores : completing > last.score

\* C26's case: the highest improving score, one signature added at level 2
\* with no individual merged, against the completing scores.
C26_Witness ==
    /\ ScoredImproving
    /\ last.level = 2
    /\ last.totals.combined_sigs = 0
    /\ last.score = IMPROVEMENT_BASE_SCORE - 2 * IMPROVEMENT_LEVEL_PENALTY
                        + IMPROVEMENT_ADDED_SIG_BONUS

\* C27 as claimed: a contribution that completes level a scores above every
\* contribution that completes a level b > a, whatever the numbers of
\* combined individual signatures.
C27_EarlierLevelScoresHigher ==
    ScoredCompleting =>
        \A b \in ScoreLevels :
            b > last.level =>
                \A c \in 0 .. (ScoreLevelSize(b) - 1) :
                    last.score > CompletingScore(b, c)

\* C27, as far as it holds: a contribution that completes level a scores above
\* one that completes a level b > a unless it merges at least
\* COMPLETES_LEVEL_LEVEL_PENALTY individuals more per level of distance.
C27_EarlierLevelScoresHigherWithinPenalty ==
    ScoredCompleting =>
        \A b \in ScoreLevels :
            b > last.level =>
                \A c \in 0 .. (ScoreLevelSize(b) - 1) :
                    last.score > CompletingScore(b, c)
                        <=> last.totals.combined_sigs
                                < c + (b - last.level)
                                          * COMPLETES_LEVEL_LEVEL_PENALTY

\* C27's case: level 5 is completed by merging 10 of its 16 identities as
\* individuals, which scores what a level 6 completed without merging does.
C27_Witness ==
    /\ ScoredCompleting
    /\ last.level = 5
    /\ last.totals.combined_sigs = COMPLETES_LEVEL_LEVEL_PENALTY
    /\ last.score = CompletingScore(6, 0)

Converted == last.op = "into_other"

\* C29 as claimed: into_other panics when the reader is in state Data and
\* converts the reader when it is in state Head.
C29_IntoOtherPanicsInData ==
    Converted => (last.panicked <=> last.state # ReaderState_Head)

\* C29, what the code does: into_other never panics; the reader it returns
\* is in state Head and holds the buffer of the reader it was called on.
C29_IntoOtherNeverPanics ==
    Converted =>
        /\ ~last.panicked
        /\ reader.state = ReaderState_Head
        /\ reader.buffer = last.buffer

\* C29's case: into_other is called in state Data with a part of the payload
\* in the buffer.
C29_Witness ==
    /\ Converted
    /\ last.state # ReaderState_Head
    /\ last.buffer # <<>>
    /\ ~last.panicked

\* C23: while an evaluate call holds the read guard no write to the store
\* takes effect, and the score it returns is the score of the store as it
\* was when the guard was taken.
C23_ScoreOfOneSnapshot ==
    /\ [][worker.pc # "idle" => store' = store]_vars
    /\ [](Evaluated => last.score = evaluate(last.held, last.contribution,
                                              last.level))

\* C23's case: a contribution was scored against a level that writers had
\* filled with a best and an individual, and a writer changed the store
\* after the call returned.
C23_Witness ==
    /\ Evaluated /\ last.level < levels
    /\ best(last.held, last.level) # {}
    /\ individual_verified(last.held, last.level) # {}
    /\ last.score > 0
    /\ store # last.held

\* The step is a call dial by the network at self to address.
DialStep(self, address) ==
    /\ last = Idle
    /\ last'.op = "dial" /\ last'.self = self /\ last'.address = address

\* The network at the address has been shut down: its peer map is out of
\* the hub.
ShutDown(address) == address \notin hub.peer_maps

\* C22 as claimed: a network that returns from shutdown has no peers; a
\* network that was shut down stays so, every later dial to it fails with
\* CantConnect and every later dial by it adds no peer to either side.
C22_ShutdownIsFinal ==
    [][/\ (last = Idle /\ last'.op = "shutdown" /\ ~last'.panicked)
            => peers'[last'.self] = {}
       /\ \A gone \in Addresses :
              ShutDown(gone) =>
                  /\ ShutDown(gone)'
                  /\ \A a \in Addresses :
                         /\ DialStep(a, gone)
                                => /\ last'.result = CantConnect(gone)
                                   /\ peers' = peers
                         /\ DialStep(gone, a) => peers' = peers]_vars

\* C22, what the code ensures: a network that returns from shutdown has no
\* peers; a network that was shut down stays so and every later dial to it
\* fails with CantConnect and adds no peer.
C22_NoDialReachesShutDown ==
    [][/\ (last = Idle /\ last'.op = "shutdown" /\ ~last'.panicked)
            => peers'[last'.self] = {}
       /\ \A gone \in Addresses :
              ShutDown(gone) =>
                  /\ ShutDown(gone)'
                  /\ \A a \in Addresses :
                         DialStep(a, gone)
                             => /\ last'.result = CantConnect(gone)
                                /\ peers' = peers]_vars

\* C22's case: a network that was shut down has dialled a network of the hub
\* and the two are peers of each other.
C22_Witness ==
    /\ last.op = "dial" /\ last.result = Ok
    /\ ShutDown(last.self)
    /\ last.self # last.address
    /\ last.address \in peers[last.self]
    /\ last.self \in peers[last.address]

\* The call held in last is one of publish, unsubscribe, dht_get, dht_put.
GatedCall == last.op \in GatedCalls

\* C24 as claimed: publish, unsubscribe, dht_get and dht_put return
\* NotConnected exactly when the network has no peer.
C24_NotConnectedIffNoPeer ==
    GatedCall => (last.result = NotConnected <=> peers[last.self] = {})

\* C24, what the code ensures: the four calls return NotConnected exactly
\* when the network's is_connected flag is false.
C24_NotConnectedIffFlagClear ==
    GatedCall => (last.result = NotConnected <=> ~hub.is_connected[last.self])

\* C24's case: a network whose only peer has disconnected publishes.
C24_Witness ==
    /\ last.op = "publish" /\ last.result = Ok
    /\ peers[last.self] = {}
    /\ \A a \in Addresses : a # last.self => ~hub.is_connected[a]
    /\ hub.peer_maps = Addresses

\* The request id was handed to a response future.
Issued(request_id) == futures[request_id].state # "none"

\* The response future of the request has resolved.
FutureResolved(request_id) ==
    futures[request_id].state \in
        {"Response", "DeSerializationError", "SenderFutureDropped", "Timeout"}

\* The hub holds a response sender for the request id.
HoldsSender(request_id) ==
    \E r \in hub.response_senders : r.request_id = request_id

\* C21: every response future a request returned resolves in the end; it
\* resolves with Response exactly when a response that deserializes was
\* sent before the timer fired, with Timeout exactly when the timer fired
\* first, and once it has resolved with Timeout the hub holds no response
\* sender for its id.
C21_FutureResolves ==
    /\ \A id \in RequestIds : Issued(id) ~> FutureResolved(id)
    /\ [][\A id \in RequestIds :
              (FutureResolved(id)' /\ ~FutureResolved(id)) =>
                  /\ futures'[id].state = "Response"
                         <=> futures[id].state = "data"
                  /\ futures'[id].state = "Timeout"
                         <=> futures[id].state = "elapsed"]_vars
    /\ [](\A id \in RequestIds :
              futures[id].state = "Timeout" => ~HoldsSender(id))

\* C21's case: of two requests one has resolved with the response sent to
\* it and the other has timed out.
C21_Witness ==
    /\ futures[0].state = "Response"
    /\ futures[1].state = "Timeout"
    /\ hub.response_senders = {}

\* The step is a call respond for the request id.
RespondStep(request_id) ==
    /\ last = Idle
    /\ last'.op = "respond" /\ last'.request_id = request_id

\* A response was sent for the request id.
Answered(request_id) ==
    futures[request_id].state \in
        {"data", "garbage", "Response", "DeSerializationError"}

\* C30: a respond call returns Ok only for a request that was not answered
\* before and is answered from then on, so at most once per request id; and
\* a respond call for a request id that was answered, whose future has
\* resolved with Timeout or that was never handed to a future returns
\* CantRespond(request_id).
C30_AnsweredAtMostOnce ==
    [][\A id \in RespondIds :
          /\ Answered(id) => Answered(id)'
          /\ RespondStep(id) =>
                 /\ last'.result = Ok => (~Answered(id) /\ Answered(id)')
                 /\ (\/ Answered(id)
                     \/ futures[id].state = "Timeout"
                     \/ ~Issued(id))
                        => last'.result = CantRespond(id)]_vars

\* C30's case: a second respond call for a request that was answered.
C30_Witness ==
    /\ last.op = "respond"
    /\ last.result = CantRespond(last.request_id)
    /\ Answered(last.request_id)
    /\ last.self \in Addresses
    /\ \E id \in RequestIds : futures[id].state = "Timeout"

(***************************************************************************)
(* C31..C37                                                                *)
(***************************************************************************)

\* The evaluate call held in last is below the final level and passes the
\* early zero returns: the identity is not empty, a single signer's individual
\* is not stored, the level is not complete and the identity is not inside the
\* level's best.
PassesZeroReturns ==
    /\ Evaluated /\ last.level < levels
    /\ EvalIdentity # {}
    /\ ~(/\ Cardinality(EvalIdentity) = 1
         /\ individual_signature_is_some(store, last.level, EvalIdentity))
    /\ ~Complete(last.level)
    /\ ~(/\ HasBest(last.level)
         /\ EvalIdentity \subseteq BestContributors(last.level))

\* (new_total, added_sigs, combined_sigs) of the evaluate call held in last.
EvalTotals ==
    totals(best(store, last.level), EvalIdentity,
           combine(EvalIdentity, individual_verified(store, last.level)))

\* The score of evaluator.rs:244-246 of the evaluate call held in last.
EvalCompletesScore ==
    COMPLETES_LEVEL_BASE_SCORE - last.level * COMPLETES_LEVEL_LEVEL_PENALTY
        - EvalTotals.combined_sigs

\* The score of evaluator.rs:253-255 of the evaluate call held in last.
EvalImprovementScore ==
    IMPROVEMENT_BASE_SCORE - last.level * IMPROVEMENT_LEVEL_PENALTY
        + EvalTotals.added_sigs * IMPROVEMENT_ADDED_SIG_BONUS
        - EvalTotals.combined_sigs

\* C31: a single-signer contribution that passes the early zero returns has
\* added_sigs of at least 1, and its score is the completes-level or the
\* improvement score, never the signer's weight.
C31_WeightBranchUnreachable ==
    (PassesZeroReturns /\ Cardinality(EvalIdentity) = 1)
    => /\ EvalTotals.added_sigs >= 1
       /\ last.score \in {EvalCompletesScore, EvalImprovementScore}
       /\ last.score # signature_weight_or_0(last.contribution)

\* C31's case: a single signer outside an incomplete best, verified individuals
\* stored, scored by the improvement formula.
C31_Witness ==
    /\ PassesZeroReturns /\ Cardinality(EvalIdentity) = 1
    /\ HasBest(last.level)
    /\ individual_verified(store, last.level) # {}
    /\ EvalTotals.new_total < level_size(last.level)
    /\ last.score = EvalImprovementScore

\* The combine(identity, allow_overlap = false) of the evaluate call held in
\* last, if the call reaches it.
EvalDisjointUnion ==
    IF PassesZeroReturns
    THEN disjoint_union(best(store, last.level), EvalIdentity)
    ELSE NoDisjointUnion

\* C32: evaluate executes best_contributors.combine(identity, false) only with
\* an identity that shares no signer with the contributors of the level's
\* best.
C32_DisjointUnionIsDisjoint ==
    (Evaluated /\ EvalDisjointUnion.executed)
    => /\ EvalDisjointUnion.self = BestContributors(last.level)
       /\ EvalDisjointUnion.other = EvalIdentity
       /\ EvalDisjointUnion.self \cap EvalDisjointUnion.other = {}

\* C32's case: a contribution of several signers next to a best of several
\* signers, individuals of both stored, and the disjoint union executed.
C32_Witness ==
    /\ Evaluated /\ EvalDisjointUnion.executed
    /\ Cardinality(EvalIdentity) > 1
    /\ Cardinality(BestContributors(last.level)) > 0
    /\ individual_verified(store, last.level) \cap EvalIdentity # {}
    /\ individual_verified(store, last.level)
           \cap BestContributors(last.level) # {}
    /\ last.score > 0

\* The contribution of the evaluate call held in last is the aggregate of an
\* update that verify accepts at the call's level, below the final one.
EvalPassedVerify ==
    /\ Evaluated /\ last.level < levels
    /\ \E origin \in ValidatorIds :
           verify(LevelUpdate(last.contribution, {}, last.level, origin)) = Ok

\* (I1) and (I2) at a level: the stored individuals and the contributors of the
\* best lie in identities_on(level).
StoreInvariants(level) ==
    /\ individual_verified(store, level) \subseteq identities_on(level)
    /\ \A b \in best(store, level) : b \subseteq identities_on(level)

\* The identity of the call held in last with the verified individuals and,
\* if it shares no signer with the identity, the level's best.
EvalUnion ==
    LET merged == EvalIdentity \cup individual_verified(store, last.level)
    IN  IF /\ HasBest(last.level)
           /\ EvalIdentity \cap BestContributors(last.level) = {}
        THEN merged \cup BestContributors(last.level)
        ELSE merged

\* C33 as claimed: for a verified update below the final level and a store
\* that satisfies (I1) and (I2), new_total is at most level_size, and evaluate
\* returns the completes-level score exactly when the identity, the verified
\* individuals and the disjoint best together are the level's identities.
C33_CompletesIffUnionIsLevel ==
    (EvalPassedVerify /\ StoreInvariants(last.level))
    => /\ EvalTotals.new_total <= level_size(last.level)
       /\ last.score = EvalCompletesScore
              <=> EvalUnion = identities_on(last.level)

\* C33, amended: the same, the equivalence for the calls that pass the early
\* zero returns; a call that does not pass them returns 0 whatever the union.
C33_CompletesIffUnionIsLevelPastZeroReturns ==
    (EvalPassedVerify /\ StoreInvariants(last.level))
    => /\ EvalTotals.new_total <= level_size(last.level)
       /\ PassesZeroReturns
              => (last.score = EvalCompletesScore
                      <=> EvalUnion = identities_on(last.level))
       /\ ~PassesZeroReturns => last.score = 0

\* C33's case: a verified contribution that completes its level only together
\* with a disjoint best and a verified individual outside both.
C33_Witness ==
    /\ EvalPassedVerify /\ StoreInvariants(last.level) /\ PassesZeroReturns
    /\ HasBest(last.level)
    /\ EvalIdentity \cap BestContributors(last.level) = {}
    /\ EvalIdentity \cup BestContributors(last.level)
           # identities_on(last.level)
    /\ EvalUnion = identities_on(last.level)
    /\ last.score = EvalCompletesScore

\* The reader has yielded UnexpectedEnd at the end of the stream: no read of
\* the inner reader has failed, so read_to_buf returned Ok(false).
YieldedUnexpectedEndAtEof ==
    /\ inner.errors = 0
    /\ \E i \in 1 .. Len(yielded) : yielded[i] = SomeErr(unexpected_end)

\* A call of poll_next whose reads of the inner reader neither wait nor fail.
PollStepOfReads ==
    /\ last = Idle
    /\ last'.op = "poll_next"
    /\ last'.read # Pending
    /\ last'.read # ReadyErr

\* C34: once the reader has yielded UnexpectedEnd because the stream ended
\* inside a header or a payload, every later poll_next, the stream still at
\* its end, meets the end again and yields UnexpectedEnd, never None or a
\* message.
C34_UnexpectedEndRepeats ==
    [][(YieldedUnexpectedEndAtEof /\ PollStepOfReads)
       => /\ inner.pos = Len(inner.wire)
          /\ last'.read = ReadyOk(FALSE)
          /\ last'.item = SomeErr(unexpected_end)
          /\ reader' = reader]_vars

\* C34's case: the stream ended inside a header and the reader has yielded
\* UnexpectedEnd three times.
C34_Witness ==
    /\ PolledEof
    /\ inner.errors = 0
    /\ last.state = ReaderState_Head
    /\ Len(yielded) >= 3
    /\ \A i \in (Len(yielded) - 2) .. Len(yielded) :
           yielded[i] = SomeErr(unexpected_end)

\* The same with the stream ended inside a payload, after a message.
C34_WitnessData ==
    /\ PolledEof
    /\ inner.errors = 0
    /\ last.state # ReaderState_Head
    /\ Len(yielded) >= 3
    /\ \E m \in Messages : yielded[1] = SomeOk(m)
    /\ \A i \in 2 .. Len(yielded) : yielded[i] = SomeErr(unexpected_end)

\* A call of poll_next.
PollStep == last = Idle /\ last'.op = "poll_next"

\* The bytes the inner reader delivers in the step.
Delivered == SubSeq(inner.wire, inner.pos + 1, inner'.pos)

\* C35: whatever short reads and Pending results the inner reader splits a
\* byte stream into, the reader yields the items it yields when every read is
\* served whole; and a poll_next that ends in Pending after reading k bytes
\* leaves exactly these k bytes appended to the buffer, in the same state, so
\* that the buffer always holds the last bytes delivered and the next poll
\* goes on after them.
C35_ChunkingIndependence ==
    [][(PollStep /\ inner'.errors = 0)
       => /\ yielded' = WholeReads(MessageReader_new, inner.wire, 0,
                                   Len(yielded'))
          /\ last'.buffer = reader.buffer \o Delivered
          /\ last'.read = Pending
                 => /\ reader'.buffer = reader.buffer \o Delivered
                    /\ reader'.state = reader.state
                    /\ yielded' = yielded]_vars

\* C35's case: after a first message the inner reader has delivered one byte
\* of the payload of a second, different one and then returned Pending.
C35_Witness ==
    /\ WellFormedStream /\ inner.errors = 0
    /\ Len(sent) = 2 /\ sent[1].message # sent[2].message
    /\ Polled /\ last.read = Pending
    /\ last.state # ReaderState_Head
    /\ Len(last.buffer) = 1
    /\ reader.buffer = last.buffer
    /\ yielded = <<SomeOk(sent[1].message)>>

\* Network a has b in its peer map if and only if b has a in its own.
PeerMapsSymmetric(ps) ==
    \A a, b \in Addresses : b \in ps[a] <=> a \in ps[b]

\* The call held in last is a disconnect, alone or inside a shutdown, that
\* panicked at a peer without a peer map in the hub.
DisconnectPanicked ==
    /\ last.op \in {"disconnect", "shutdown"}
    /\ last.panicked

\* A call of disconnect, alone or inside a shutdown.
DisconnectStep ==
    last = Idle /\ last'.op \in {"disconnect", "shutdown"}

\* C36 as claimed: under every interleaving of dial, disconnect and shutdown
\* the peer maps are symmetric and no disconnect panics.
C36_PeerMapsSymmetric ==
    PeerMapsSymmetric(peers) /\ ~DisconnectPanicked

\* C36, what the code ensures: a step keeps the peer maps symmetric unless it
\* is a disconnect that panics, and a disconnect panics exactly when one of
\* the caller's peers has been shut down.
C36_SymmetricUntilPanic ==
    [][/\ (PeerMapsSymmetric(peers) /\ ~DisconnectPanicked')
            => PeerMapsSymmetric(peers')
       /\ DisconnectStep
            => (last'.panicked
                    <=> \E a \in peers[last'.self] : ShutDown(a))]_vars

\* C36's case: a network disconnected from a peer that was shut down and then
\* dialled it; the call panicked, and the peer still has the network in its
\* peer map.
C36_Witness ==
    /\ last.op = "disconnect" /\ last.panicked
    /\ peers[last.self] = {}
    /\ \E a \in Addresses :
           /\ a # last.self
           /\ ShutDown(a)
           /\ last.self \in peers[a]
    /\ ~PeerMapsSymmetric(peers)

\* A call of request.
RequestStep == last = Idle /\ last'.op = "request"

\* C37: under every interleaving of the calls of the networks of one hub, a
\* request is given the id no earlier request was given: the hub's next id,
\* which only grows, under which no future was handed out and the hub holds
\* no response sender; and the hub holds at most one response sender per id,
\* that of the network whose request was given the id, for an id already
\* given out.
C37_RequestIdsAreUnique ==
    [][/\ hub'.next_request_id >= hub.next_request_id
       /\ (RequestStep /\ last'.result.kind = "Ok")
            => /\ last'.result.request_id = hub.next_request_id
               /\ hub'.next_request_id = hub.next_request_id + 1
               /\ ~Issued(hub.next_request_id)
               /\ ~HoldsSender(hub.next_request_id)
               /\ hub'.response_senders =
                      hub.response_senders
                          \cup {ResponseSender(hub.next_request_id,
                                               last'.self)}
       /\ \A r \in hub'.response_senders :
              /\ r.request_id < hub'.next_request_id
              /\ \/ r \in hub.response_senders
                 \/ /\ RequestStep
                    /\ r = ResponseSender(hub.next_request_id, last'.self)
              /\ \A q \in hub'.response_senders :
                     q.request_id = r.request_id => q = r
       /\ \A id \in RespondIds :
              id >= hub'.next_request_id => ~Issued(id)']_vars

\* C37's case: the two networks have a request each outstanding, under
\* different ids, the second given out while the first was waiting.
C37_Witness ==
    /\ last.op = "request" /\ last.result.kind = "Ok"
    /\ last.result.request_id = 1
    /\ \E a, b \in Addresses :
           /\ a # b
           /\ hub.response_senders =
                  {ResponseSender(0, a), ResponseSender(1, b)}
    /\ futures[0].state = "waiting"
    /\ futures[1].state = "waiting"

====
